---- MODULE Spec2Model ----
(***************************************************************************)
(* Model of Sim/DataLine.py: the bounded fifo, the channel that feeds it,  *)
(* the four arbiters that drain it and the dual-clock tick computation of  *)
(* AsyncDataline.                                                          *)
(***************************************************************************)
EXTENDS Integers, Sequences, FiniteSets, TLC

VARIABLES
    num_of_channels, \* arbiter.num_of_channels: how many channels the data line has
    data_depth,      \* fifo.data_depth, the same for every channel
    one_b_mode,      \* channel.one_b_mode, the same for every channel
    wr_freq,         \* AsyncDataline's wr_freq argument, in tenths of a MHz
    rd_freq,         \* AsyncDataline's rd_freq argument, in tenths of a MHz
    LCM_freq,        \* AsyncDataline.LCM_freq, None until it is computed
    wr_enable_tick,  \* AsyncDataline.wr_enable_tick, None until it is computed
    rd_enable_tick,  \* AsyncDataline.rd_enable_tick, None until it is computed
    buffer,          \* buffer[c]: fifo.buffer of channel c, oldest word first
    raised,          \* the exception the last call raised, NoError if it returned
    pushed,          \* every word a successful fifo.push stored in fifo 0, in call order
    popped,          \* every word a fifo.pop on fifo 0 returned, in call order
    encoder_asked,   \* whether the last produce_and_push reached encoder.encode_live
    track_appended,  \* what the last produce_and_push appended to _buffer_space_track
    encoder_given,   \* the data the last produce_and_push gave encode_live: "row", "binary", or "none"
    arbiter_name,    \* which arbiter class the data line was built with
    last_served,     \* arbiter.last_served
    channel_select_last, \* arbiter.channel_select[-1], None while the log is empty
    urgency,         \* ArbiterUrgency.urgency
    age,             \* ArbiterUrgency.age
    max_reads,       \* CARRArbiter.max_reads
    curr_idx,        \* CARRArbiter.curr_idx
    burst_count,     \* CARRArbiter.burst_count
    last_popped_word, \* CARRArbiter.last_popped_word
    pc,              \* where arbiter.step stands: "idle", or "selected" after select_channel
    sel_channel,     \* step's local sel_channel: a channel index, or None
    select_trace,    \* the channels the last num_of_channels select_channel calls returned
    waited,          \* waited[c]: the arbiter steps in a row that found channel c non-empty and took no word from it
    enqueued,        \* enqueued[c]: every word a fifo.push stored in the fifo of channel c, in call order
    drained,         \* drained[c]: every word a fifo.pop took from the fifo of channel c, in call order
    packer_name,     \* which packetiser class was built, "none" if none was
    fifo_output_lines, \* the lines of the file given to build_packet, header line left out
    packetised,      \* the lines build_packet wrote to its output file, None before the call
    header_cnt,      \* build_packet's local header_cnt when it returned
    ender_cnt,       \* build_packet's local ender_cnt when it returned
    encoded_packet_size, \* packetiser._encoded_packet_size
    write_up,        \* AsyncDataline.write_up
    img_rows,        \* img.shape[0] of the image given to run_single_image
    run_pc,          \* where run_single_image stands
    tick,            \* run_single_image's loop variable tick
    wr_step,         \* run_single_image's local wr_step
    rd_step,         \* run_single_image's local rd_step
    POP_word_file,   \* the lines written to POP_word_file after its header line
    step_popped      \* the channel and word the last arbiter step of the run dequeued

clockVars == <<wr_freq, rd_freq, LCM_freq, wr_enable_tick, rd_enable_tick>>
configVars == <<num_of_channels, data_depth, one_b_mode, clockVars>>
fifoVars == <<buffer, raised>>
historyVars == <<waited, enqueued, drained>>
observerVars == <<pushed, popped, select_trace, historyVars>>
channelVars == <<encoder_asked, track_appended, encoder_given>>
arbiterVars == <<arbiter_name, last_served, channel_select_last, urgency, age,
                 max_reads, curr_idx, burst_count, last_popped_word, pc, sel_channel>>
packerVars == <<packer_name, fifo_output_lines, packetised, header_cnt, ender_cnt,
                encoded_packet_size>>
runVars == <<write_up, img_rows, run_pc, tick, wr_step, rd_step, POP_word_file,
             step_popped>>
vars == <<configVars, fifoVars, channelVars, arbiterVars, observerVars, packerVars,
          runVars>>

(***************************************************************************)
(* Configuration.                                                          *)
(***************************************************************************)
\* num_of_channels and fifo_depth of the data line that Spec runs under each
\* of the four arbiters
NumChannels == 2
DataDepth == 2
\* fifo.data_width, the default of fifo.__init__
DataWidth == 16
\* data_depth of the fifo that SpecFifo calls directly
FifoDepth == 3
\* how many words the direct fifo calls of SpecFifo may store in all
MaxPushes == 5
\* max_reads of the CARR arbiters
MaxReadsCfg == 2
\* num_of_channels of the round-robin data line of SpecRR
RrChannels == 3
\* fifo_depth of the urgency data line of SpecFillDrain, whose channel count
\* is that of the worked example
ExampleDepth == 5
ExampleOccupancy == <<3, 1, 5>>
\* num_of_channels and fifo_depth of the CARR data line of SpecCARR
CarrChannels == 3
CarrDepth == 6
\* the files SpecPacker gives to build_packet hold up to MaxTrace lines, over
\* the channel ids 0 .. PackChannels - 1
MaxTrace == 3
PackChannels == 2
\* SpecUrgency's fifos hold UrgencyDepth words: a full one outweighs an age of 255
UrgencyDepth == 65
\* SpecChannel's channel has a fifo of ChannelDepth words
ChannelDepth == 6
\* SpecRun gives run_single_image images of up to MaxRows rows
MaxRows == 2
\* SpecConstruct draws frequencies from -MaxSigned to MaxSigned tenths of a MHz
MaxSigned == 2
\* the defaults of wr_freq (20) and rd_freq (37.5), in tenths of a MHz
DefaultWrFreq == 200
DefaultRdFreq == 375
\* SpecClock tries every frequency from 0.1 MHz to MaxTenths tenths of a MHz,
\* and the two defaults
MaxTenths == 8

\* arbiter_name of DataLine / AsyncDataline
ArbiterNames == {"round_robin", "urgency", "round_robin_skip", "CARR"}

Chan == 0 .. (num_of_channels - 1)

\* Python's None, where an integer is expected
None == -1

\* the exceptions of DataLine.py
NoError == "no exception"
ErrRange == "Data out of range for FIFO width"
ErrFull == "FIFO is full"
ErrEmpty == "FIFO is empty"
ErrChanFull == "FIFO {id} is full, cannot push data"
ErrShape == "Data shape is not correct, should be (5,)"
ErrImgShape == "Image shape is not correct"
ErrAttribute == "AttributeError: object has no attribute 'last_popped_word'"
ErrZeroDivision == "ZeroDivisionError: integer division or modulo by zero"

(***************************************************************************)
(* class fifo                                                              *)
(***************************************************************************)
\* the largest word that fits: 2**self.data_width - 1
MaxWord == 2 ^ DataWidth - 1

\* fifo.push with the range test dropped
fifo_push_no_range(buf, data) ==
    IF Len(buf) < data_depth
    THEN [buffer |-> Append(buf, data), raised |-> NoError]
    ELSE [buffer |-> buf, raised |-> ErrFull]

\* fifo.push with an off-by-one capacity test
fifo_push_off_by_one(buf, data) ==
    IF data > MaxWord \/ data < 0
    THEN [buffer |-> buf, raised |-> ErrRange]
    ELSE IF Len(buf) <= data_depth
         THEN [buffer |-> Append(buf, data), raised |-> NoError]
         ELSE [buffer |-> buf, raised |-> ErrFull]

\* fifo.push(data): the buffer after the call and the exception raised
fifo_push(buf, data) ==
    IF data > MaxWord \/ data < 0
    THEN [buffer |-> buf, raised |-> ErrRange]
    ELSE IF Len(buf) < data_depth
         THEN [buffer |-> Append(buf, data), raised |-> NoError]
         ELSE [buffer |-> buf, raised |-> ErrFull]

\* fifo.pop taking the newest word (list.pop() instead of list.pop(0))
fifo_pop_newest(buf) ==
    IF Len(buf) > 0
    THEN [buffer |-> SubSeq(buf, 1, Len(buf) - 1), word |-> buf[Len(buf)],
          raised |-> NoError]
    ELSE [buffer |-> buf, word |-> None, raised |-> ErrEmpty]

\* fifo.pop removing two words when two are stored
fifo_pop_two(buf) ==
    IF Len(buf) > 1
    THEN [buffer |-> Tail(Tail(buf)), word |-> Head(buf), raised |-> NoError]
    ELSE IF Len(buf) > 0
    THEN [buffer |-> Tail(buf), word |-> Head(buf), raised |-> NoError]
    ELSE [buffer |-> buf, word |-> None, raised |-> ErrEmpty]

\* fifo.pop(): the buffer after the call, the word returned, the exception
fifo_pop(buf) ==
    IF Len(buf) > 0
    THEN [buffer |-> Tail(buf), word |-> Head(buf), raised |-> NoError]
    ELSE [buffer |-> buf, word |-> None, raised |-> ErrEmpty]

\* is_empty answering False whatever the fifo holds
is_empty_never(buf) == FALSE

is_empty(buf) == Len(buf) = 0
is_full(buf) == Len(buf) = data_depth
space_available(buf) == data_depth - Len(buf)
almost_full(buf) == Len(buf) >= data_depth - 4
space_used(buf) == Len(buf)

(***************************************************************************)
(* class channel                                                           *)
(***************************************************************************)
\* encoder.encode_live(time_step, data): None, one word, or a tuple of two
\* words, the words drawn from `words`; the result is given as a sequence,
\* None as the empty one
EncodeLive(words) ==
    {<<>>} \cup {<<w>> : w \in words} \cup {<<t, w>> : t \in words, w \in words}

\* the word the encoder returns in the runs of the arbiters, none of which
\* reads a word's value
EncWords == {MaxWord}

\* the pushes of a tuple made last word first
push_each_last_first(buf, words) ==
    IF Len(words) = 2
    THEN LET r == fifo_push(buf, words[2])
         IN IF r.raised # NoError THEN r ELSE fifo_push(r.buffer, words[1])
    ELSE IF Len(words) = 1 THEN fifo_push(buf, words[1])
    ELSE [buffer |-> buf, raised |-> NoError]

\* "for d in encoded_data: self.fifo.push(d)": the pushes stop at the first
\* one that raises
RECURSIVE push_each(_, _)
push_each(buf, words) ==
    IF words = <<>>
    THEN [buffer |-> buf, raised |-> NoError]
    ELSE LET r == fifo_push(buf, Head(words))
         IN IF r.raised # NoError THEN r ELSE push_each(r.buffer, Tail(words))

\* the data every channel with the flag set gives the encoder
data_given_when_flagged(buf) == IF one_b_mode THEN "binary" ELSE "row"

\* lines 125-129: the data produce_and_push gives the encoder, the row or
\* np.where(data > 1, 7, 0)
data_given(buf) == IF one_b_mode /\ almost_full(buf) THEN "binary" ELSE "row"

\* produce_and_push without the is_full test on entry
produce_and_push_unguarded(buf, shape_ok, encoded_data) ==
    IF ~shape_ok
    THEN [buffer |-> buf, raised |-> ErrShape, encoder_asked |-> FALSE,
          track_appended |-> None, encoder_given |-> "none"]
    ELSE LET r == push_each(buf, encoded_data)
         IN [buffer |-> r.buffer, raised |-> r.raised, encoder_asked |-> TRUE,
             track_appended |-> IF r.raised = NoError
                                THEN space_available(r.buffer) ELSE None,
             encoder_given |-> data_given(buf)]

\* channel.produce_and_push(data, time_step): what it leaves behind
produce_and_push(buf, shape_ok, encoded_data) ==
    IF is_full(buf)
    THEN [buffer |-> buf, raised |-> ErrChanFull, encoder_asked |-> FALSE,
          track_appended |-> None, encoder_given |-> "none"]
    ELSE IF ~shape_ok
    THEN [buffer |-> buf, raised |-> ErrShape, encoder_asked |-> FALSE,
          track_appended |-> None, encoder_given |-> "none"]
    ELSE LET r == push_each(buf, encoded_data)
         IN [buffer |-> r.buffer, raised |-> r.raised, encoder_asked |-> TRUE,
             track_appended |-> IF r.raised = NoError
                                THEN space_available(r.buffer) ELSE None,
             encoder_given |-> data_given(buf)]

(***************************************************************************)
(* class arbiter (round robin)                                             *)
(***************************************************************************)
\* select_channel wrapping one channel early
arbiter_select_channel_short(ls) == (ls + 1) % (num_of_channels - 1)

\* arbiter.select_channel: the new last_served, which is the channel returned
arbiter_select_channel(ls) == (ls + 1) % num_of_channels

(***************************************************************************)
(* class RoundRobinSkipEmpty                                               *)
(***************************************************************************)
\* the probes of select_channel's loop that find a non-empty fifo
skip_hits(buf, ls) ==
    {k \in 1 .. num_of_channels : ~is_empty(buf[(ls + k) % num_of_channels])}

\* select_channel returning the last channel probed instead of None
skip_select_channel_last_probed(buf, ls) ==
    LET hits == skip_hits(buf, ls)
    IN IF hits = {}
       THEN [last_served |-> (ls + num_of_channels) % num_of_channels,
             sel |-> (ls + num_of_channels) % num_of_channels]
       ELSE LET k == CHOOSE h \in hits : \A g \in hits : h <= g
            IN [last_served |-> (ls + k) % num_of_channels,
                sel |-> (ls + k) % num_of_channels]

\* select_channel returning the last non-empty channel of the scan
skip_select_channel_farthest(buf, ls) ==
    LET hits == skip_hits(buf, ls)
    IN IF hits = {}
       THEN [last_served |-> (ls + num_of_channels) % num_of_channels, sel |-> None]
       ELSE LET k == CHOOSE h \in hits : \A g \in hits : h >= g
            IN [last_served |-> (ls + k) % num_of_channels,
                sel |-> (ls + k) % num_of_channels]

\* select_channel scanning from channel 0 whatever was served last
skip_select_channel_from_zero(buf, ls) ==
    LET hits == skip_hits(buf, 0 - 1)
    IN IF hits = {}
       THEN [last_served |-> (ls + num_of_channels) % num_of_channels, sel |-> None]
       ELSE LET k == CHOOSE h \in hits : \A g \in hits : h <= g
            IN [last_served |-> k - 1, sel |-> k - 1]

\* select_channel giving up one probe early when every fifo is empty
skip_select_channel_short_scan(buf, ls) ==
    LET hits == skip_hits(buf, ls)
    IN IF hits = {}
       THEN [last_served |-> (ls + num_of_channels - 1) % num_of_channels,
             sel |-> None]
       ELSE LET k == CHOOSE h \in hits : \A g \in hits : h <= g
            IN [last_served |-> (ls + k) % num_of_channels,
                sel |-> (ls + k) % num_of_channels]

\* RoundRobinSkipEmpty.select_channel: last_served after the loop and the
\* channel returned (None when every probe found an empty fifo)
skip_select_channel(buf, ls) ==
    LET hits == skip_hits(buf, ls)
    IN IF hits = {}
       THEN [last_served |-> (ls + num_of_channels) % num_of_channels, sel |-> None]
       ELSE LET k == CHOOSE h \in hits : \A g \in hits : h <= g
            IN [last_served |-> (ls + k) % num_of_channels,
                sel |-> (ls + k) % num_of_channels]

(***************************************************************************)
(* class ArbiterUrgency                                                    *)
(***************************************************************************)
\* the loop body of select_channel leaving a waiting channel's age as it was
age_after_not_incremented(buf, ag, i) ==
    IF is_empty(buf[i]) THEN 0 ELSE ag[i]

\* the loop body of select_channel without the test age < 255
age_after_uncapped(buf, ag, i) ==
    IF is_empty(buf[i]) THEN 0 ELSE ag[i] + 1

\* the loop body of select_channel testing age <= 255
age_after_cap_inclusive(buf, ag, i) ==
    IF is_empty(buf[i]) THEN 0
    ELSE IF ag[i] <= 255 THEN ag[i] + 1 ELSE ag[i]

\* the age of channel i after the loop body of select_channel
age_after(buf, ag, i) ==
    IF is_empty(buf[i]) THEN 0
    ELSE IF ag[i] < 255 THEN ag[i] + 1 ELSE ag[i]

\* the last index holding the maximum
argmax_last(u) ==
    CHOOSE i \in Chan :
        /\ \A j \in Chan : u[j] <= u[i]
        /\ \A j \in Chan : j > i => u[j] < u[i]

\* np.argmax: the first index holding the maximum
argmax(u) ==
    CHOOSE i \in Chan :
        /\ \A j \in Chan : u[j] <= u[i]
        /\ \A j \in Chan : j < i => u[j] < u[i]

\* ArbiterUrgency.select_channel: age, urgency and the index selected
urgency_select_channel(buf, ag) ==
    LET a == [i \in Chan |-> age_after(buf, ag, i)]
        u == [i \in Chan |-> space_used(buf[i]) * 4 + a[i]]
    IN [age |-> a, urgency |-> u, sel |-> argmax(u)]

(***************************************************************************)
(* class CARRArbiter                                                       *)
(***************************************************************************)
all_empty(buf) == \A c \in Chan : is_empty(buf[c])

\* _advance_to_next_non_empty moving one channel on whatever it holds
advance_one(buf, cur) ==
    IF all_empty(buf) THEN cur ELSE (cur + 1) % num_of_channels

\* CARRArbiter._advance_to_next_non_empty: the new curr_idx
advance_to_next_non_empty(buf, cur) ==
    IF all_empty(buf) THEN cur
    ELSE LET hits == {k \in 1 .. num_of_channels : ~is_empty(buf[(cur + k) % num_of_channels])}
             k == CHOOSE h \in hits : \A g \in hits : h <= g
         IN (cur + k) % num_of_channels

\* _find_almost_full_other scanning from channel 0 instead of curr_idx + 1
find_almost_full_lowest(buf, cur) ==
    LET hits == {j \in Chan : j # cur /\ almost_full(buf[j]) /\ ~is_empty(buf[j])}
    IN IF hits = {} THEN None
       ELSE CHOOSE h \in hits : \A g \in hits : h <= g

\* CARRArbiter._find_almost_full_other: an index, or None
find_almost_full_other(buf, cur) ==
    LET hits == {k \in 1 .. num_of_channels :
                    LET j == (cur + k) % num_of_channels
                    IN j # cur /\ almost_full(buf[j]) /\ ~is_empty(buf[j])}
    IN IF hits = {} THEN None
       ELSE LET k == CHOOSE h \in hits : \A g \in hits : h <= g
            IN (cur + k) % num_of_channels

\* select_channel without the burst limit of lines 356-360
carr_select_channel_uncapped(buf, cur, bc, mr) ==
    IF all_empty(buf) THEN [curr_idx |-> cur, burst_count |-> bc]
    ELSE LET af_idx == find_almost_full_other(buf, cur)
         IN IF af_idx # None THEN [curr_idx |-> af_idx, burst_count |-> 0]
            ELSE IF is_empty(buf[cur])
            THEN [curr_idx |-> advance_to_next_non_empty(buf, cur), burst_count |-> 0]
            ELSE [curr_idx |-> cur, burst_count |-> bc]

\* CARRArbiter.select_channel: curr_idx and burst_count after the call; the
\* channel returned is channels[curr_idx]
carr_select_channel(buf, cur, bc, mr) ==
    IF all_empty(buf) THEN [curr_idx |-> cur, burst_count |-> bc]
    ELSE LET af_idx == find_almost_full_other(buf, cur)
         IN IF af_idx # None THEN [curr_idx |-> af_idx, burst_count |-> 0]
            ELSE IF is_empty(buf[cur])
            THEN [curr_idx |-> advance_to_next_non_empty(buf, cur), burst_count |-> 0]
            ELSE IF bc >= mr
            THEN [curr_idx |-> advance_to_next_non_empty(buf, cur), burst_count |-> 0]
            ELSE [curr_idx |-> cur, burst_count |-> bc]

(***************************************************************************)
(* Python floats: IEEE-754 binary64 values, rounded to nearest with ties   *)
(* to even.  A non-negative float is m * 2^e; its mantissa m is a sequence *)
(* of bits, least significant first, as it does not fit a model integer.   *)
(***************************************************************************)
\* how many bits the mantissa of a float has
MantissaBits == 53
\* how many binary places a decimal literal is expanded to before rounding
LiteralPlaces == 60

\* how many bits of a mantissa mul_bits and div_small handle at a time
LimbBits == 12
LimbBase == 2 ^ LimbBits

RECURSIVE bits_of(_)
bits_of(n) == IF n = 0 THEN <<>> ELSE <<n % 2>> \o bits_of(n \div 2)

RECURSIVE int_of_bits(_)
int_of_bits(b) == IF b = <<>> THEN 0 ELSE b[1] + 2 * int_of_bits(Tail(b))

zeros(k) == [i \in 1 .. k |-> 0]

\* b without its most significant zeros
strip(b) ==
    LET ones == {i \in 1 .. Len(b) : b[i] = 1}
    IN IF ones = {} THEN <<>>
       ELSE SubSeq(b, 1, CHOOSE i \in ones : \A j \in ones : j <= i)

\* b + 1
inc_bits(b) ==
    LET zs == {i \in 1 .. Len(b) : b[i] = 0}
    IN IF zs = {} THEN zeros(Len(b)) \o <<1>>
       ELSE LET z == CHOOSE i \in zs : \A j \in zs : i <= j
            IN [i \in 1 .. Len(b) |-> IF i < z THEN 0 ELSE IF i = z THEN 1 ELSE b[i]]

\* b cut into limbs of LimbBits bits, least significant first, and back
limbs_of(b) ==
    [j \in 1 .. ((Len(b) + LimbBits - 1) \div LimbBits) |->
        int_of_bits(SubSeq(b, (j - 1) * LimbBits + 1,
                           IF j * LimbBits < Len(b) THEN j * LimbBits ELSE Len(b)))]
bits_of_limbs(l) ==
    strip([i \in 1 .. (LimbBits * Len(l)) |->
              (l[(i - 1) \div LimbBits + 1] \div 2 ^ ((i - 1) % LimbBits)) % 2])

\* the sum of the partial products x[i] * y[j] of column k = i + j - 1, for
\* the limbs i and below of x
RECURSIVE column(_, _, _, _)
column(x, y, k, i) ==
    IF i = 0 THEN 0
    ELSE (IF (k + 1 - i) \in 1 .. Len(y) THEN x[i] * y[k + 1 - i] ELSE 0)
         + column(x, y, k, i - 1)

\* the limbs of x * y from column k up, given the carry into column k
RECURSIVE carry_pass(_, _, _, _)
carry_pass(x, y, k, carry) ==
    IF k > Len(x) + Len(y) THEN <<>>
    ELSE LET s == column(x, y, k, Len(x)) + carry
         IN <<s % LimbBase>> \o carry_pass(x, y, k + 1, s \div LimbBase)

\* the exact product x * y of two bit sequences
mul_bits(x, y) == bits_of_limbs(carry_pass(limbs_of(x), limbs_of(y), 1, 0))

\* long division of the limbs i .. 1 of l by a small d, r being the
\* remainder of the limbs above: the quotient and the remainder
RECURSIVE div_small(_, _, _, _)
div_small(l, i, d, r) ==
    IF i = 0 THEN [q |-> <<>>, r |-> r]
    ELSE LET t == LimbBase * r + l[i]
             rest == div_small(l, i - 1, d, t % d)
         IN [q |-> Append(rest.q, t \div d), r |-> rest.r]

\* m * 2^e as a float: the MantissaBits leading bits of m, rounded to
\* nearest, ties to even
round_to_float(m, e) ==
    LET drop == Len(m) - MantissaBits
    IN IF drop <= 0 THEN [m |-> m, e |-> e]
       ELSE LET kept == SubSeq(m, drop + 1, Len(m))
                sticky == \E i \in 1 .. (drop - 1) : m[i] = 1
                up == m[drop] = 1 /\ (sticky \/ kept[1] = 1)
            IN [m |-> IF up THEN inc_bits(kept) ELSE kept, e |-> e + drop]

\* the float a decimal literal denotes, the literal counting `tenths` tenths
\* (375 for 37.5): tenths / 10 to LiteralPlaces binary places, one more bit
\* telling whether anything is left beyond them, rounded
float_of_tenths(tenths) ==
    LET l == limbs_of(zeros(LiteralPlaces) \o bits_of(tenths))
        d == div_small(l, Len(l), 10, 0)
    IN round_to_float(<<IF d.r = 0 THEN 0 ELSE 1>> \o bits_of_limbs(d.q),
                      0 - (LiteralPlaces + 1))

\* an int operand of a float product
float_of_int(n) == [m |-> bits_of(n), e |-> 0]

\* x * y on floats
float_mul(x, y) == round_to_float(mul_bits(x.m, y.m), x.e + y.e)

\* int(x) on a float: truncation toward zero
int(x) ==
    IF x.e >= 0 THEN int_of_bits(zeros(x.e) \o x.m)
    ELSE IF 0 - x.e >= Len(x.m) THEN 0
    ELSE int_of_bits(SubSeq(x.m, 1 - x.e, Len(x.m)))

\* math.gcd
RECURSIVE gcd(_, _)
gcd(a, b) == IF b = 0 THEN a ELSE gcd(b, a % b)

(***************************************************************************)
(* class AsyncDataline: the tick computation of __init__                   *)
(***************************************************************************)
\* |x|
abs(x) == IF x < 0 THEN 0 - x ELSE x

\* a // b on ints, b not 0: the quotient rounded toward minus infinity
floor_div(a, b) == IF b > 0 THEN a \div b ELSE (0 - a) \div (0 - b)

\* int(freq * k) for the frequency of `tenths` tenths and an int k: the sign
\* of the frequency on the truncated magnitude of the float product
int_times(tenths, k) ==
    IF tenths = 0 THEN 0
    ELSE LET n == int(float_mul(float_of_tenths(abs(tenths)), float_of_int(k)))
         IN IF tenths < 0 THEN 0 - n ELSE n

\* int(wr_freq * rd_freq * 100)
int_product(wr_tenths, rd_tenths) ==
    IF wr_tenths = 0 \/ rd_tenths = 0 THEN 0
    ELSE LET n == int(float_mul(float_mul(float_of_tenths(abs(wr_tenths)),
                                          float_of_tenths(abs(rd_tenths))),
                                float_of_int(100)))
         IN IF (wr_tenths < 0) = (rd_tenths < 0) THEN n ELSE 0 - n

\* LCM_freq, wr_enable_tick and rd_enable_tick as __init__ computes them,
\* and the exception of the first division by zero (None: never assigned)
tick_enables(wr_tenths, rd_tenths) ==
    LET wr10 == int_times(wr_tenths, 10)
        rd10 == int_times(rd_tenths, 10)
        g == gcd(abs(wr10), abs(rd10))
        lcm == floor_div(int_product(wr_tenths, rd_tenths), g)
    IN IF g = 0
       THEN [LCM_freq |-> None, wr_enable_tick |-> None,
             rd_enable_tick |-> None, raised |-> ErrZeroDivision]
       ELSE IF wr10 = 0
       THEN [LCM_freq |-> lcm, wr_enable_tick |-> None,
             rd_enable_tick |-> None, raised |-> ErrZeroDivision]
       ELSE IF rd10 = 0
       THEN [LCM_freq |-> lcm, wr_enable_tick |-> floor_div(lcm, wr10),
             rd_enable_tick |-> None, raised |-> ErrZeroDivision]
       ELSE [LCM_freq |-> lcm, wr_enable_tick |-> floor_div(lcm, wr10),
             rd_enable_tick |-> floor_div(lcm, rd10), raised |-> NoError]

(***************************************************************************)
(* Construction: AsyncDataline.__init__ with num_of_channels = n,          *)
(* fifo_depth = depth, an arbiter of `names` and, for CARR, max_reads =    *)
(* reads.  ConstructedLine is the data line before __init__ reaches the    *)
(* tick computation, Constructed the data line built with the default      *)
(* frequencies.                                                            *)
(***************************************************************************)
ConstructedChannels(n, depth, names, reads) ==
    /\ num_of_channels = n
    /\ data_depth = depth
    /\ buffer = [c \in 0 .. (n - 1) |-> <<>>]
    /\ raised = NoError
    /\ encoder_asked = FALSE
    /\ track_appended = None
    /\ encoder_given = "none"
    /\ arbiter_name \in names
    /\ last_served = 0 - 1
    /\ channel_select_last = None
    /\ urgency = [c \in 0 .. (n - 1) |-> 0]
    /\ age = [c \in 0 .. (n - 1) |-> 0]
    /\ max_reads = IF arbiter_name = "CARR" THEN reads ELSE None
    /\ curr_idx = IF n > 0 THEN 0 ELSE 0 - 1
    /\ burst_count = 0
    /\ last_popped_word = None
    /\ pc = "idle"
    /\ sel_channel = None
    /\ pushed = <<>>
    /\ popped = <<>>
    /\ select_trace = <<>>
    /\ waited = [c \in 0 .. (n - 1) |-> 0]
    /\ enqueued = [c \in 0 .. (n - 1) |-> <<>>]
    /\ drained = [c \in 0 .. (n - 1) |-> <<>>]

\* AsyncDataline builds its channels with one_B_mode left at its default
ConstructedLine(n, depth, names, reads) ==
    /\ ConstructedChannels(n, depth, names, reads)
    /\ one_b_mode = FALSE

\* no packetiser has been built
NoPacketiser ==
    /\ packer_name = "none"
    /\ fifo_output_lines = <<>>
    /\ packetised = <<>>
    /\ header_cnt = None
    /\ ender_cnt = None
    /\ encoded_packet_size = None

\* the tick computation done for the default frequencies
DefaultClock ==
    /\ wr_freq = DefaultWrFreq
    /\ rd_freq = DefaultRdFreq
    /\ LET t == tick_enables(wr_freq, rd_freq)
       IN /\ LCM_freq = t.LCM_freq
          /\ wr_enable_tick = t.wr_enable_tick
          /\ rd_enable_tick = t.rd_enable_tick

\* a step that dequeued nothing
NoDequeue == [channel_id |-> None, word |-> None]

\* run_single_image has not been called; write_up has its default
NotRunning ==
    /\ write_up = FALSE
    /\ img_rows = 0
    /\ run_pc = "not_running"
    /\ tick = 0
    /\ wr_step = 0
    /\ rd_step = 0
    /\ POP_word_file = <<>>
    /\ step_popped = NoDequeue

Constructed(n, depth, names, reads) ==
    /\ ConstructedLine(n, depth, names, reads)
    /\ DefaultClock
    /\ NoPacketiser
    /\ NotRunning

(***************************************************************************)
(* Direct calls on one fifo.                                               *)
(***************************************************************************)
\* the arguments tried for push: both edges of the word range and both
\* neighbours outside it
PushData == {0 - 1, 0, MaxWord, MaxWord + 1}

\* one call fifo.push(data) on fifo 0
Push(data) ==
    /\ Len(pushed) < MaxPushes
    /\ LET r == fifo_push(buffer[0], data)
       IN /\ buffer' = [buffer EXCEPT ![0] = r.buffer]
          /\ raised' = r.raised
          /\ pushed' = IF r.raised = NoError THEN Append(pushed, data) ELSE pushed
    /\ UNCHANGED <<configVars, channelVars, arbiterVars, popped, select_trace,
                   historyVars, packerVars, runVars>>

\* one call fifo.pop() on fifo 0
Pop ==
    /\ LET r == fifo_pop(buffer[0])
       IN /\ buffer' = [buffer EXCEPT ![0] = r.buffer]
          /\ raised' = r.raised
          /\ popped' = IF r.raised = NoError THEN Append(popped, r.word) ELSE popped
    /\ UNCHANGED <<configVars, channelVars, arbiterVars, pushed, select_trace,
                   historyVars, packerVars, runVars>>

NextFifo ==
    \/ \E data \in PushData : Push(data)
    \/ Pop

SpecFifo ==
    /\ Constructed(1, FifoDepth, {"round_robin"}, None)
    /\ [][NextFifo]_vars

(***************************************************************************)
(* Claims about the fifo, checked under SpecFifo.                          *)
(***************************************************************************)
\* C1: whatever pushes and pops were called, failing ones included, the
\* number of words a fifo stores stays within 0 .. data_depth.
C1_LengthWithinDepth ==
    \A c \in Chan : Len(buffer[c]) >= 0 /\ Len(buffer[c]) <= data_depth

\* a push was refused because the fifo already held data_depth words
C1_Witness == Len(buffer[0]) = data_depth /\ raised = ErrFull

\* C2: the words pop has returned are, in order, the first words that were
\* pushed: popped is a prefix of pushed.
C2_FifoOrder ==
    /\ Len(popped) <= Len(pushed)
    /\ \A i \in 1 .. Len(popped) : popped[i] = pushed[i]

\* two different words came out while a third is still stored
C2_Witness ==
    /\ Len(popped) >= 2
    /\ popped[1] # popped[2]
    /\ Len(buffer[0]) >= 1

\* C3: push succeeds exactly when the word fits data_width and the fifo is
\* not full, pop exactly when the fifo is not empty; a call that fails raises
\* and leaves the stored words as they were.
C3_PushPopOutcome ==
    [][ /\ \A data \in PushData :
               Push(data) =>
                   /\ (raised' = NoError) <=>
                          (0 <= data /\ data < 2 ^ DataWidth
                              /\ Len(buffer[0]) < data_depth)
                   /\ raised' = NoError => buffer'[0] = Append(buffer[0], data)
                   /\ raised' # NoError =>
                          (raised' \in {ErrRange, ErrFull} /\ buffer' = buffer)
        /\ Pop =>
               /\ (raised' = NoError) <=> (Len(buffer[0]) > 0)
               /\ raised' # NoError => (raised' = ErrEmpty /\ buffer' = buffer)
      ]_vars

\* an out-of-range push was refused by a fifo that holds words
C3_Witness == raised = ErrRange /\ Len(buffer[0]) >= 1

(***************************************************************************)
(* The data line: productions and arbiter steps in any order.              *)
(***************************************************************************)
\* channels[c].produce_and_push(data, time_step)
Produce(c, shape_ok, encoded_data) ==
    /\ pc = "idle"
    /\ LET r == produce_and_push(buffer[c], shape_ok, encoded_data)
       IN /\ buffer' = [buffer EXCEPT ![c] = r.buffer]
          /\ raised' = r.raised
          /\ encoder_asked' = r.encoder_asked
          /\ track_appended' = r.track_appended
          /\ encoder_given' = r.encoder_given
    /\ UNCHANGED <<configVars, arbiterVars>>

\* what every arbiter action leaves of the channel's own bookkeeping
NoProduction ==
    encoder_asked' = FALSE /\ track_appended' = None /\ encoder_given' = "none"

\* arbiter.step, line 165: sel_channel = self.select_channel()
RoundRobinSelect ==
    /\ arbiter_name = "round_robin" /\ pc = "idle"
    /\ last_served' = arbiter_select_channel(last_served)
    /\ sel_channel' = last_served'
    /\ pc' = "selected"
    /\ raised' = NoError
    /\ NoProduction
    /\ UNCHANGED <<configVars, buffer, arbiter_name, channel_select_last,
                   urgency, age, max_reads, curr_idx, burst_count, last_popped_word>>

\* arbiter.step, lines 167-171
RoundRobinPop ==
    /\ arbiter_name = "round_robin" /\ pc = "selected"
    /\ IF ~is_empty(buffer[sel_channel])
       THEN LET r == fifo_pop(buffer[sel_channel])
            IN /\ buffer' = [buffer EXCEPT ![sel_channel] = r.buffer]
               /\ raised' = r.raised
               /\ channel_select_last' = sel_channel
       ELSE /\ raised' = NoError
            /\ UNCHANGED <<buffer, channel_select_last>>
    /\ pc' = "idle"
    /\ sel_channel' = None
    /\ NoProduction
    /\ UNCHANGED <<configVars, arbiter_name, last_served, urgency, age,
                   max_reads, curr_idx, burst_count, last_popped_word>>

\* RoundRobinSkipEmpty.step, line 265
SkipSelect ==
    /\ arbiter_name = "round_robin_skip" /\ pc = "idle"
    /\ LET r == skip_select_channel(buffer, last_served)
       IN /\ last_served' = r.last_served
          /\ sel_channel' = r.sel
    /\ pc' = "selected"
    /\ raised' = NoError
    /\ NoProduction
    /\ UNCHANGED <<configVars, buffer, arbiter_name, channel_select_last,
                   urgency, age, max_reads, curr_idx, burst_count, last_popped_word>>

\* RoundRobinSkipEmpty.step, lines 267-271
SkipPop ==
    /\ arbiter_name = "round_robin_skip" /\ pc = "selected"
    /\ IF sel_channel # None
       THEN LET r == fifo_pop(buffer[sel_channel])
            IN /\ buffer' = [buffer EXCEPT ![sel_channel] = r.buffer]
               /\ raised' = r.raised
               /\ channel_select_last' =
                      IF r.raised = NoError THEN sel_channel ELSE channel_select_last
       ELSE /\ raised' = NoError
            /\ UNCHANGED <<buffer, channel_select_last>>
    /\ pc' = "idle"
    /\ sel_channel' = None
    /\ NoProduction
    /\ UNCHANGED <<configVars, arbiter_name, last_served, urgency, age,
                   max_reads, curr_idx, burst_count, last_popped_word>>

\* ArbiterUrgency.step, line 226
UrgencySelect ==
    /\ arbiter_name = "urgency" /\ pc = "idle"
    /\ LET r == urgency_select_channel(buffer, age)
       IN /\ age' = r.age
          /\ urgency' = r.urgency
          /\ last_served' = r.sel
          /\ sel_channel' = r.sel
    /\ pc' = "selected"
    /\ raised' = NoError
    /\ NoProduction
    /\ UNCHANGED <<configVars, buffer, arbiter_name, channel_select_last,
                   max_reads, curr_idx, burst_count, last_popped_word>>

\* ArbiterUrgency.step, lines 228-236
UrgencyPop ==
    /\ arbiter_name = "urgency" /\ pc = "selected"
    /\ IF ~is_empty(buffer[sel_channel])
       THEN LET r == fifo_pop(buffer[sel_channel])
            IN /\ buffer' = [buffer EXCEPT ![sel_channel] = r.buffer]
               /\ raised' = r.raised
               /\ age' = [age EXCEPT ![sel_channel] = 0]
               /\ UNCHANGED urgency
       ELSE /\ raised' = NoError
            /\ urgency' = [urgency EXCEPT ![sel_channel] = 0]
            /\ age' = [age EXCEPT ![sel_channel] = 0]
            /\ UNCHANGED buffer
    /\ channel_select_last' = sel_channel
    /\ pc' = "idle"
    /\ sel_channel' = None
    /\ NoProduction
    /\ UNCHANGED <<configVars, arbiter_name, last_served,
                   max_reads, curr_idx, burst_count, last_popped_word>>

\* the idle return of step moving curr_idx on and clearing burst_count
CARRIdle_rotating ==
    /\ arbiter_name = "CARR" /\ pc = "idle"
    /\ num_of_channels # 0 /\ all_empty(buffer)
    /\ curr_idx' = (curr_idx + 1) % num_of_channels
    /\ burst_count' = 0
    /\ last_popped_word' = None
    /\ raised' = NoError
    /\ NoProduction
    /\ UNCHANGED <<configVars, buffer, arbiter_name, last_served,
                   channel_select_last, urgency, age, max_reads, pc, sel_channel>>

\* the idle return of step without line 376
CARRIdle_keeping_word ==
    /\ arbiter_name = "CARR" /\ pc = "idle"
    /\ num_of_channels = 0 \/ all_empty(buffer)
    /\ raised' = NoError
    /\ NoProduction
    /\ UNCHANGED <<configVars, buffer, arbiter_name, last_served,
                   channel_select_last, urgency, age, max_reads, curr_idx,
                   burst_count, pc, sel_channel, last_popped_word>>

\* CARRArbiter.step, lines 371-378: the step that returns before selecting
CARRIdle ==
    /\ arbiter_name = "CARR" /\ pc = "idle"
    /\ num_of_channels = 0 \/ all_empty(buffer)
    /\ last_popped_word' = IF num_of_channels = 0 THEN last_popped_word ELSE None
    /\ raised' = NoError
    /\ NoProduction
    /\ UNCHANGED <<configVars, buffer, arbiter_name, last_served,
                   channel_select_last, urgency, age, max_reads, curr_idx,
                   burst_count, pc, sel_channel>>

\* CARRArbiter.step, line 380
CARRSelect ==
    /\ arbiter_name = "CARR" /\ pc = "idle"
    /\ num_of_channels # 0 /\ ~all_empty(buffer)
    /\ LET r == carr_select_channel(buffer, curr_idx, burst_count, max_reads)
       IN /\ curr_idx' = r.curr_idx
          /\ burst_count' = r.burst_count
          /\ sel_channel' = r.curr_idx
    /\ pc' = "selected"
    /\ raised' = NoError
    /\ NoProduction
    /\ UNCHANGED <<configVars, buffer, arbiter_name, last_served,
                   channel_select_last, urgency, age, max_reads, last_popped_word>>

\* CARRArbiter.step, lines 382-390
CARRPop ==
    /\ arbiter_name = "CARR" /\ pc = "selected"
    /\ IF ~is_empty(buffer[sel_channel])
       THEN LET r == fifo_pop(buffer[sel_channel])
            IN /\ buffer' = [buffer EXCEPT ![sel_channel] = r.buffer]
               /\ raised' = r.raised
               /\ last_popped_word' = r.word
               /\ channel_select_last' = sel_channel
               /\ burst_count' = burst_count + 1
       ELSE /\ raised' = NoError
            /\ last_popped_word' = None
            /\ burst_count' = 0
            /\ UNCHANGED <<buffer, channel_select_last>>
    /\ pc' = "idle"
    /\ sel_channel' = None
    /\ NoProduction
    /\ UNCHANGED <<configVars, arbiter_name, last_served, urgency, age,
                   max_reads, curr_idx>>

\* self.select_channel() as step calls it, under whichever arbiter
Select == RoundRobinSelect \/ SkipSelect \/ UrgencySelect \/ CARRSelect
\* the rest of step, after select_channel returned
PopSelected == RoundRobinPop \/ SkipPop \/ UrgencyPop \/ CARRPop

\* an action of the data line, with the observers of the other
\* specifications left alone
Unobserved(A) == A /\ UNCHANGED <<observerVars, packerVars, runVars>>

Next ==
    \/ \E c \in Chan, shape_ok \in BOOLEAN, encoded_data \in EncodeLive(EncWords) :
           Unobserved(Produce(c, shape_ok, encoded_data))
    \/ Unobserved(RoundRobinSelect)
    \/ Unobserved(RoundRobinPop)
    \/ Unobserved(SkipSelect)
    \/ Unobserved(SkipPop)
    \/ Unobserved(UrgencySelect)
    \/ Unobserved(UrgencyPop)
    \/ Unobserved(CARRIdle)
    \/ Unobserved(CARRSelect)
    \/ Unobserved(CARRPop)

\* a data line of NumChannels channels under any of the four arbiters
Spec ==
    /\ Constructed(NumChannels, DataDepth, ArbiterNames, MaxReadsCfg)
    /\ [][Next]_vars

(***************************************************************************)
(* Claims about the channel and the arbiters, checked under Spec.          *)
(***************************************************************************)
\* C4: produce_and_push on a channel whose queue is full fails before the
\* encoder is asked, enqueues nothing and appends nothing to the occupancy
\* log.
C4_AdmissionControl ==
    [][ \A c \in Chan, shape_ok \in BOOLEAN, encoded_data \in EncodeLive(EncWords) :
            (Len(buffer[c]) = data_depth /\ Produce(c, shape_ok, encoded_data)) =>
                /\ raised' = ErrChanFull
                /\ buffer' = buffer
                /\ encoder_asked' = FALSE
                /\ track_appended' = None
      ]_vars

\* a production was refused on a full queue
C4_Witness ==
    /\ raised = ErrChanFull
    /\ \E c \in Chan : Len(buffer[c]) = data_depth

\* C5: under each of the four arbiters one step removes at most one word,
\* the oldest of the channel select_channel returned, and no word of any
\* other channel.
C5_OneDequeue ==
    [][ /\ (Select \/ CARRIdle) => buffer' = buffer
        /\ PopSelected =>
               /\ \A c \in Chan : c # sel_channel => buffer'[c] = buffer[c]
               /\ sel_channel # None =>
                      \/ buffer'[sel_channel] = buffer[sel_channel]
                      \/ /\ Len(buffer[sel_channel]) > 0
                         /\ buffer'[sel_channel] = Tail(buffer[sel_channel])
      ]_vars

\* a step dequeued from one channel while another one held words
C5_Witness ==
    /\ pc = "idle"
    /\ channel_select_last # None
    /\ Len(buffer[channel_select_last]) < data_depth
    /\ \E c \in Chan : c # channel_select_last /\ Len(buffer[c]) > 0

\* C6: no arbiter step ever ends in the fifo's "FIFO is empty" error,
\* whatever the occupancies are.
C6_NoPopOnEmpty == raised # ErrEmpty

\* RoundRobinSkipEmpty selected with every queue empty
C6_Witness ==
    /\ arbiter_name = "round_robin_skip"
    /\ pc = "selected"
    /\ \A c \in Chan : Len(buffer[c]) = 0

(***************************************************************************)
(* The round-robin data line, with the channels select_channel returned.   *)
(***************************************************************************)
\* the last n entries of a sequence
LastN(seq, n) ==
    IF Len(seq) <= n THEN seq ELSE SubSeq(seq, Len(seq) - n + 1, Len(seq))

\* a select action, with the channel it returned recorded
Traced(A) ==
    /\ A
    /\ select_trace' = LastN(Append(select_trace, sel_channel'), num_of_channels)
    /\ UNCHANGED <<pushed, popped, historyVars, packerVars, runVars>>

NextRR ==
    \/ \E c \in Chan, shape_ok \in BOOLEAN, encoded_data \in EncodeLive(EncWords) :
           Unobserved(Produce(c, shape_ok, encoded_data))
    \/ Traced(RoundRobinSelect)
    \/ Unobserved(RoundRobinPop)

SpecRR ==
    /\ Constructed(RrChannels, DataDepth, {"round_robin"}, None)
    /\ [][NextRR]_vars

\* C7: any num_of_channels consecutive select_channel calls of the base
\* arbiter return every channel id exactly once, whatever the queues hold.
C7_RoundRobinVisitsAll ==
    Len(select_trace) = num_of_channels =>
        \A c \in Chan :
            Cardinality({i \in 1 .. Len(select_trace) : select_trace[i] = c}) = 1

\* a full window that does not start at channel 0, over queues of which one
\* is empty and one is full
C7_Witness ==
    /\ Len(select_trace) = num_of_channels
    /\ select_trace[1] # 0
    /\ \E c \in Chan : Len(buffer[c]) = 0
    /\ \E c \in Chan : Len(buffer[c]) = data_depth

(***************************************************************************)
(* The urgency data line, filled by productions and then drained.          *)
(***************************************************************************)
\* no step has run yet
NotStepped == last_served = 0 - 1

NextFillDrain ==
    \/ /\ NotStepped
       /\ \E c \in Chan, encoded_data \in EncodeLive(EncWords) :
              Unobserved(Produce(c, TRUE, encoded_data))
    \/ Unobserved(UrgencySelect)
    \/ Unobserved(UrgencyPop)

SpecFillDrain ==
    /\ Constructed(Len(ExampleOccupancy), ExampleDepth, {"urgency"}, None)
    /\ [][NextFillDrain]_vars

\* how many words each channel holds
Occupancy == [c \in Chan |-> Len(buffer[c])]

\* the worked example: occupancies 3, 1, 5 and every age 0, before a step
ExampleState ==
    /\ pc = "idle"
    /\ Occupancy = [c \in Chan |-> ExampleOccupancy[c + 1]]
    /\ age = [c \in Chan |-> 0]

\* the example once select_channel has returned, and once the step is over
ExampleSelected ==
    /\ pc = "selected"
    /\ Occupancy = [c \in Chan |-> ExampleOccupancy[c + 1]]
    /\ age = [c \in Chan |-> 1]
ExampleStepped ==
    /\ pc = "idle"
    /\ Occupancy = (0 :> 3 @@ 1 :> 1 @@ 2 :> 4)
    /\ age = (0 :> 1 @@ 1 :> 1 @@ 2 :> 0)

ExampleSelectedAgain ==
    /\ pc = "selected"
    /\ Occupancy = (0 :> 3 @@ 1 :> 1 @@ 2 :> 4)
    /\ age = (0 :> 2 @@ 1 :> 2 @@ 2 :> 1)

\* C8 as stated: select_channel on the example computes the urgencies
\* 12, 4, 20 and selects channel 2, whose age is 0 after the step; channel
\* 0's age is 1 after the next step, which does not select it.
C8_AsStated ==
    [][ /\ (ExampleState /\ UrgencySelect) =>
               (urgency' = (0 :> 12 @@ 1 :> 4 @@ 2 :> 20) /\ sel_channel' = 2)
        /\ (ExampleSelected /\ UrgencyPop) => age'[2] = 0
        /\ (ExampleStepped /\ UrgencySelect) => (sel_channel' # 0 /\ age'[0] = 1)
      ]_vars

\* C8 amended: select_channel first raises every age to 1, so the urgencies
\* are 13, 5, 21; channel 2 is selected and its age is 0 after the step,
\* while channel 0's age is 1; the next step selects channel 2 again and
\* leaves channel 0's age at 2.
C8_WorkedExample ==
    [][ /\ (ExampleState /\ UrgencySelect) =>
               /\ urgency' = (0 :> 13 @@ 1 :> 5 @@ 2 :> 21)
               /\ sel_channel' = 2
               /\ ExampleSelected'
        /\ (ExampleSelected /\ UrgencyPop) =>
               /\ age'[2] = 0
               /\ age'[0] = 1
               /\ ExampleStepped'
        /\ (ExampleStepped /\ UrgencySelect) =>
               (sel_channel' = 2 /\ ExampleSelectedAgain')
        /\ (ExampleSelectedAgain /\ UrgencyPop) => (age'[0] = 2 /\ age'[2] = 0)
      ]_vars

\* the second step after the example has selected channel 2 again
C8_Witness ==
    /\ ExampleSelectedAgain
    /\ sel_channel = 2
    /\ urgency = (0 :> 14 @@ 1 :> 6 @@ 2 :> 17)

(***************************************************************************)
(* The CARR data line.                                                     *)
(***************************************************************************)
NextCARR ==
    \/ \E c \in Chan, encoded_data \in EncodeLive(EncWords) :
           Unobserved(Produce(c, TRUE, encoded_data))
    \/ Unobserved(CARRIdle)
    \/ Unobserved(CARRSelect)
    \/ Unobserved(CARRPop)

SpecCARR ==
    /\ Constructed(CarrChannels, CarrDepth, {"CARR"}, MaxReadsCfg)
    /\ [][NextCARR]_vars

\* the channels other than curr_idx that are non-empty and almost full
Congested ==
    {j \in Chan : j # curr_idx /\ Len(buffer[j]) > 0
                    /\ Len(buffer[j]) >= data_depth - 4}

\* how many channels after curr_idx, cyclically, channel j comes
Ahead(j) == (j - curr_idx + num_of_channels) % num_of_channels

\* C9: whenever some queue is non-empty and a channel other than the current
\* one is non-empty and almost full, select_channel moves to the first such
\* channel after the current one in cyclic order and sets burst_count to 0,
\* whatever burst_count and the current channel's queue are.
C9_Preemption ==
    [][ (CARRSelect /\ Congested # {}) =>
            /\ curr_idx' \in Congested
            /\ \A j \in Congested : Ahead(curr_idx') <= Ahead(j)
            /\ sel_channel' = curr_idx'
            /\ burst_count' = 0
      ]_vars

\* channel 1 was served last and still holds words below the almost-full
\* mark; channels 2 and 0 are both almost full, and channel 2 is selected
C9_Witness ==
    /\ pc = "selected"
    /\ channel_select_last = 1
    /\ sel_channel = 2
    /\ burst_count = 0
    /\ Len(buffer[1]) > 0 /\ Len(buffer[1]) < data_depth - 4
    /\ Len(buffer[0]) >= data_depth - 4
    /\ Len(buffer[2]) >= data_depth - 4

(***************************************************************************)
(* The tick computation of AsyncDataline.__init__ over frequencies given   *)
(* in tenths of a MHz.                                                     *)
(***************************************************************************)
Tenths == (1 .. MaxTenths) \cup {DefaultWrFreq, DefaultRdFreq}

\* lines 500-504 of __init__
ComputeTicks ==
    /\ LCM_freq = None
    /\ LET t == tick_enables(wr_freq, rd_freq)
       IN /\ LCM_freq' = t.LCM_freq
          /\ wr_enable_tick' = t.wr_enable_tick
          /\ rd_enable_tick' = t.rd_enable_tick
    /\ UNCHANGED <<num_of_channels, data_depth, one_b_mode, wr_freq, rd_freq, fifoVars,
                   channelVars, arbiterVars, observerVars, packerVars, runVars>>

NextClock == ComputeTicks

InitClock ==
    /\ ConstructedLine(NumChannels, DataDepth, {"round_robin_skip"}, None)
    /\ NoPacketiser
    /\ NotRunning
    /\ wr_freq \in Tenths
    /\ rd_freq \in Tenths
    /\ LCM_freq = None
    /\ wr_enable_tick = None
    /\ rd_enable_tick = None

SpecClock == InitClock /\ [][NextClock]_vars

\* C10: for frequencies given in tenths, LCM_freq is the least common
\* multiple wr * rd / gcd(wr, rd) of the two frequencies in tenths,
\* wr_enable_tick is LCM_freq / wr and rd_enable_tick is LCM_freq / rd, both
\* exactly, so that LCM_freq is a multiple of both; 20 MHz and 37.5 MHz give
\* wr_enable_tick 15 and rd_enable_tick 8.
C10_TickIntervals ==
    LCM_freq # None =>
        /\ LCM_freq = (wr_freq * rd_freq) \div gcd(wr_freq, rd_freq)
        /\ wr_enable_tick * wr_freq = LCM_freq
        /\ rd_enable_tick * rd_freq = LCM_freq
        /\ (wr_freq = DefaultWrFreq /\ rd_freq = DefaultRdFreq) =>
               (wr_enable_tick = 15 /\ rd_enable_tick = 8)

(***************************************************************************)
(* AsyncDataline.__init__ called with any number of channels and any       *)
(* frequencies, zero and negative ones included.                           *)
(***************************************************************************)
SignedTenths == ((0 - MaxSigned) .. MaxSigned) \cup {DefaultWrFreq, DefaultRdFreq}

\* the call, its arguments bound, before line 484
\* lines 484-516: __init__ returns the data line or raises
Construct ==
    /\ run_pc = "constructing"
    /\ LET t == tick_enables(wr_freq, rd_freq)
       IN /\ LCM_freq' = t.LCM_freq
          /\ wr_enable_tick' = t.wr_enable_tick
          /\ rd_enable_tick' = t.rd_enable_tick
          /\ raised' = t.raised
          /\ run_pc' = IF t.raised = NoError THEN "not_running" ELSE "failed"
    /\ UNCHANGED <<num_of_channels, data_depth, one_b_mode, wr_freq, rd_freq, buffer,
                   channelVars, arbiterVars, observerVars, packerVars, write_up,
                   img_rows, tick, wr_step, rd_step, POP_word_file, step_popped>>

NextConstruct == Construct

InitConstruct ==
    /\ \E n \in 0 .. NumChannels :
          ConstructedLine(n, DataDepth, ArbiterNames, MaxReadsCfg)
    /\ NoPacketiser
    /\ wr_freq \in SignedTenths
    /\ rd_freq \in SignedTenths
    /\ LCM_freq = None
    /\ wr_enable_tick = None
    /\ rd_enable_tick = None
    /\ write_up \in BOOLEAN
    /\ img_rows = 0
    /\ run_pc = "constructing"
    /\ tick = 0
    /\ wr_step = 0
    /\ rd_step = 0
    /\ POP_word_file = <<>>
    /\ step_popped = NoDequeue

SpecConstruct == InitConstruct /\ [][NextConstruct]_vars

\* C17: constructing a data line with zero channels, or with a write or read
\* frequency that is zero or negative, fails at construction
C17_ConfigurationValidation ==
    LET \* the configuration the constructor is to refuse
        invalid_configuration == num_of_channels = 0 \/ wr_freq <= 0 \/ rd_freq <= 0
    IN (run_pc # "constructing" /\ invalid_configuration) =>
           (run_pc = "failed" /\ raised # NoError)

(***************************************************************************)
(* Text of the popped-words file: a string is a sequence of characters.    *)
(***************************************************************************)
LowerDigits == <<"0", "1", "2", "3", "4", "5", "6", "7", "8", "9",
                 "a", "b", "c", "d", "e", "f">>
UpperDigits == <<"0", "1", "2", "3", "4", "5", "6", "7", "8", "9",
                 "A", "B", "C", "D", "E", "F">>

\* the digits of hex(n), without the prefix
RECURSIVE hex_digits(_)
hex_digits(n) ==
    IF n < 16 THEN <<LowerDigits[n + 1]>>
    ELSE hex_digits(n \div 16) \o <<LowerDigits[(n % 16) + 1]>>

\* hex(n) for n >= 0: lower-case digits after "0x"
hex(n) == <<"0", "x">> \o hex_digits(n)

\* str.upper() of one character of a hex string
upper_char(ch) ==
    IF ch = "x" THEN "X"
    ELSE IF \E i \in 1 .. 16 : LowerDigits[i] = ch
    THEN UpperDigits[CHOOSE i \in 1 .. 16 : LowerDigits[i] = ch]
    ELSE ch

\* str.upper()
upper(str) == [i \in 1 .. Len(str) |-> upper_char(str[i])]

\* the value of one hex digit of either case
digit_value(ch) ==
    (CHOOSE i \in 1 .. 16 : LowerDigits[i] = ch \/ UpperDigits[i] = ch) - 1

\* int(word, 16) of a string with a "0x" or "0X" prefix
RECURSIVE int16_digits(_, _)
int16_digits(str, i) ==
    IF i <= 2 THEN 0
    ELSE 16 * int16_digits(str, i - 1) + digit_value(str[i])
int16(str) == int16_digits(str, Len(str))

\* v ^ 0xFFFF for v >= 0
xor_ffff(v) == (v \div 65536) * 65536 + (65535 - (v % 65536))

(***************************************************************************)
(* packet_builder.py: the lines the packetisers write.                     *)
(***************************************************************************)
\* print_header(): the two lines "SOF: 0xFACE" and "Header: 0x0001"
print_header == <<[kind |-> "SOF"], [kind |-> "HEADER"]>>
\* print_eof(): the line "EOF: 0xDEAD"
print_eof == <<[kind |-> "EOF"]>>
\* a line holding one word as text
word_line(text) == [kind |-> "WORD", text |-> text]

\* CARR_PACKER_VARIABLE_LENGTH.word_processing: the lines of the string it
\* returns
special_characters ==
    {<<"0", "x", "C", "0", "D", "E">>, <<"0", "x", "D", "E", "A", "D">>,
     <<"0", "x", "B", "E", "E", "F">>}
word_processing(word) ==
    IF word \in special_characters
    THEN <<word_line(<<"0", "x", "B", "E", "E", "F">>),
           word_line(upper(hex(xor_ffff(int16(word)))))>>
    ELSE <<word_line(word)>>

\* build_packet's locals and output before the first line: curr_id_x,
\* header_cnt, ender_cnt, the lines written and _encoded_packet_size
before_loop(size) ==
    [curr_id_x |-> 0 - 1, header_cnt |-> 1, ender_cnt |-> 0,
     out |-> print_header, size |-> size + 2]

\* the frame sealed whenever the channel id changes
seals_on_change(st, line) == st.curr_id_x # 0 - 1 /\ line.channel_id # st.curr_id_x

\* the frame sealed and a new one opened when the channel id decreases
seals(st, line) == st.curr_id_x # 0 - 1 /\ line.channel_id < st.curr_id_x

\* the loop of the fixed-length build_packet never updating curr_id_x
fixed_length_line_stale_id(st, line) ==
    [curr_id_x |-> st.curr_id_x,
     header_cnt |-> st.header_cnt,
     ender_cnt |-> st.ender_cnt,
     out |-> st.out
             \o <<[kind |-> "CTRL", channel_id |-> line.channel_id,
                   word_length |-> Len(line.fifo_hex) - 2],
                  word_line(line.fifo_hex)>>,
     size |-> st.size + 2]

\* one pass of the loop of CARR_packer_fixed_length.build_packet
fixed_length_line(st, line) ==
    IF line.channel_id # st.curr_id_x
    THEN [curr_id_x |-> line.channel_id,
          header_cnt |-> st.header_cnt + (IF seals(st, line) THEN 1 ELSE 0),
          ender_cnt |-> st.ender_cnt + (IF seals(st, line) THEN 1 ELSE 0),
          out |-> st.out
                  \o (IF seals(st, line) THEN print_eof \o print_header ELSE <<>>)
                  \o <<[kind |-> "CTRL", channel_id |-> line.channel_id,
                        word_length |-> Len(line.fifo_hex) - 2],
                       word_line(line.fifo_hex)>>,
          size |-> st.size + (IF seals(st, line) THEN 3 ELSE 0) + 2]
    ELSE [st EXCEPT !.out = Append(@, word_line(line.fifo_hex)),
                    !.size = @ + 1]

\* the loop adding 1 to _encoded_packet_size for every payload word
word_size_flat(line) == 1

\* what the loop adds to _encoded_packet_size for one payload word
word_size(line) ==
    IF word_processing(line.fifo_hex) # <<word_line(line.fifo_hex)>> THEN 2 ELSE 1

\* one pass of the loop of CARR_PACKER_VARIABLE_LENGTH.build_packet
variable_length_line(st, line) ==
    IF line.channel_id # st.curr_id_x
    THEN [curr_id_x |-> line.channel_id,
          header_cnt |-> st.header_cnt + (IF seals(st, line) THEN 1 ELSE 0),
          ender_cnt |-> st.ender_cnt + (IF seals(st, line) THEN 1 ELSE 0),
          out |-> st.out
                  \o (IF seals(st, line) THEN print_eof \o print_header ELSE <<>>)
                  \o <<[kind |-> "CHS"], [kind |-> "CID", channel_id |-> line.channel_id]>>
                  \o word_processing(line.fifo_hex),
          size |-> st.size + (IF seals(st, line) THEN 3 ELSE 0) + 2 + word_size(line)]
    ELSE [st EXCEPT !.out = @ \o word_processing(line.fifo_hex),
                    !.size = @ + word_size(line)]

\* the loop of build_packet over the first i lines
RECURSIVE build_loop(_, _, _, _)
build_loop(name, lines, i, size) ==
    IF i = 0 THEN before_loop(size)
    ELSE IF name = "CARR_packer_fixed_length"
    THEN fixed_length_line(build_loop(name, lines, i - 1, size), lines[i])
    ELSE variable_length_line(build_loop(name, lines, i - 1, size), lines[i])

\* build_packet never writing the closing EOF
build_packet_unclosed(name, lines, size) == build_loop(name, lines, Len(lines), size)

\* build_packet(fifo_output) of either packetiser
build_packet(name, lines, size) ==
    LET st == build_loop(name, lines, Len(lines), size)
    IN [st EXCEPT !.out = @ \o print_eof,
                  !.ender_cnt = @ + 1,
                  !.size = @ + 1]

(***************************************************************************)
(* The packetisers run on a popped-words file.                             *)
(***************************************************************************)
\* how the file spells a word: "hex" as write_up_popped_words does with
\* hex(), "upper" with upper-case digits as in "0xDEAD"
spelled(word, style) ==
    IF style = "hex" THEN hex(word)
    ELSE <<"0", "x">> \o SubSeq(upper(hex(word)), 3, Len(hex(word)))

\* the drain traces tried: sequences of (channel id, word), the words
\* among 0x11, 0x22, 0x33, 0xC0DE, 0xDEAD, 0xBEEF
Traces ==
    UNION {[1 .. n -> (0 .. (PackChannels - 1)) \X {17, 34, 51, 49374, 57005, 48879}] :
               n \in 0 .. MaxTrace}

\* the lines "time step, channel id, word (hex), word (dec)" of a trace
file_lines(trace, style) ==
    [i \in 1 .. Len(trace) |->
        [time_step |-> i - 1, channel_id |-> trace[i][1],
         fifo_hex |-> spelled(trace[i][2], style), fifo_dec |-> trace[i][2]]]

\* one call build_packet(fifo_output) on the packetiser
BuildPacket ==
    /\ header_cnt = None
    /\ LET r == build_packet(packer_name, fifo_output_lines, encoded_packet_size)
       IN /\ packetised' = r.out
          /\ header_cnt' = r.header_cnt
          /\ ender_cnt' = r.ender_cnt
          /\ encoded_packet_size' = r.size
    /\ UNCHANGED <<configVars, fifoVars, channelVars, arbiterVars, observerVars,
                   packer_name, fifo_output_lines, runVars>>

InitPacker ==
    /\ ConstructedLine(NumChannels, DataDepth, {"CARR"}, MaxReadsCfg)
    /\ DefaultClock
    /\ NotRunning
    /\ packer_name \in {"CARR_packer_fixed_length", "CARR_PACKER_VARIABLE_LENGTH"}
    /\ fifo_output_lines \in
           {file_lines(trace, style) : trace \in Traces, style \in {"hex", "upper"}}
    /\ packetised = <<>>
    /\ header_cnt = None
    /\ ender_cnt = None
    /\ encoded_packet_size = 0

SpecPacker == InitPacker /\ [][BuildPacket]_vars

\* the channel ids of a file, line by line
ids == [i \in 1 .. Len(fifo_output_lines) |-> fifo_output_lines[i].channel_id]
\* how many lines of the file have a lower channel id than the line before
decreases == Cardinality({i \in 2 .. Len(ids) : ids[i] < ids[i - 1]})
\* how many lines of a given kind build_packet wrote
written(kind) == Cardinality({i \in 1 .. Len(packetised) : packetised[i].kind = kind})

\* C11: whatever the drain trace, build_packet of either packetiser ends
\* with header_cnt = ender_cnt, and has written as many SOF and HEADER lines
\* as EOF lines.
C11_FrameBalance ==
    header_cnt # None =>
        /\ header_cnt = ender_cnt
        /\ written("SOF") = header_cnt
        /\ written("HEADER") = header_cnt
        /\ written("EOF") = ender_cnt

\* a built file of MaxTrace lines whose channel ids decrease once
C11_Witness ==
    /\ header_cnt = 2
    /\ decreases = 1
    /\ Len(fifo_output_lines) = MaxTrace
    /\ packer_name = "CARR_PACKER_VARIABLE_LENGTH"

\* the lines that open a maximal run of lines with the same channel id
run_starts == {i \in 1 .. Len(ids) : i = 1 \/ ids[i] # ids[i - 1]}

\* the control and payload lines a segmentation by runs consists of, for the
\* first i lines of the file: each control line as its channel id, each
\* payload line as its text
RECURSIVE run_segments(_)
run_segments(i) ==
    IF i = 0 THEN <<>>
    ELSE run_segments(i - 1)
         \o (IF i \in run_starts THEN <<<<"CTRL", ids[i]>>>> ELSE <<>>)
         \o <<<<"WORD", fifo_output_lines[i].fifo_hex>>>>

\* the file of the example: (0, 0x11), (0, 0x22), (1, 0x33)
SegmentExample == fifo_output_lines = file_lines(<<<<0, 17>>, <<0, 34>>, <<1, 51>>>>, "hex")

values(ls) == [i \in 1 .. Len(ls) |-> int16(ls[i].text)]

\* the payload lines the variable-length loop writes for the first i lines
\* of the file, were every word equal to 0xC0DE, 0xDEAD or 0xBEEF written as
\* 0xBEEF and the word XOR 0xFFFF, and every other word as itself
RECURSIVE stuffed_values(_)
stuffed_values(i) ==
    IF i = 0 THEN <<>>
    ELSE stuffed_values(i - 1)
         \o (IF fifo_output_lines[i].fifo_dec \in {49374, 57005, 48879}
             THEN <<48879, xor_ffff(fifo_output_lines[i].fifo_dec)>>
             ELSE <<fifo_output_lines[i].fifo_dec>>)

is_word_line(l) == l.kind = "WORD"

\* C13: the variable-length packetiser writes every payload word equal to
\* 0xC0DE, 0xDEAD or 0xBEEF as the two words 0xBEEF and word XOR 0xFFFF, and
\* every other payload word as one word.
C13_WordStuffing ==
    (packer_name = "CARR_PACKER_VARIABLE_LENGTH" /\ header_cnt # None) =>
        values(SelectSeq(packetised, is_word_line))
            = stuffed_values(Len(fifo_output_lines))

\* the decoder of the stuffed words: 0xBEEF takes the one word after it and
\* XORs it with 0xFFFF, any other word stands for itself; None stands for a
\* 0xBEEF with no word after it
RECURSIVE unstuffed(_)
unstuffed(vals) ==
    IF vals = <<>> THEN <<>>
    ELSE IF vals[1] # 48879 THEN <<vals[1]>> \o unstuffed(Tail(vals))
    ELSE IF Len(vals) = 1 THEN <<None>>
    ELSE <<xor_ffff(vals[2])>> \o unstuffed(SubSeq(vals, 3, Len(vals)))

\* C14: every payload word of the file is what decoding the output of
\* word_processing for it gives back, and 0xDEAD is written as 0xBEEF,
\* 0x2152.
C14_StuffingRoundTrip ==
    (packer_name = "CARR_PACKER_VARIABLE_LENGTH" /\ header_cnt # None) =>
        \A i \in 1 .. Len(fifo_output_lines) :
            LET line == fifo_output_lines[i]
                out == values(word_processing(line.fifo_hex))
            IN /\ unstuffed(out) = <<line.fifo_dec>>
               /\ line.fifo_dec = 57005 => out = <<48879, 8530>>

(***************************************************************************)
(* AsyncDataline.run_single_image, one position of its loop at a time.     *)
(***************************************************************************)
\* run_produce_live looping over the channels from the last to the first;
\* c counts the channels done
RECURSIVE run_produce_live_descending(_, _, _)
run_produce_live_descending(buf, enc, c) ==
    IF c >= num_of_channels
    THEN [buffer |-> buf, raised |-> NoError, encoder_asked |-> FALSE,
          track_appended |-> None, encoder_given |-> "none"]
    ELSE LET chan == num_of_channels - 1 - c
             r == produce_and_push(buf[chan], TRUE, enc[chan])
             after == [buf EXCEPT ![chan] = r.buffer]
         IN IF r.raised # NoError \/ c = num_of_channels - 1
            THEN [r EXCEPT !.buffer = after]
            ELSE run_produce_live_descending(after, enc, c + 1)

\* run_produce_live: produce_and_push on the channels c and above, in
\* ascending order, up to the first one that raises; enc[c] is what the
\* encoder of channel c returns
RECURSIVE run_produce_live(_, _, _)
run_produce_live(buf, enc, c) ==
    IF c >= num_of_channels
    THEN [buffer |-> buf, raised |-> NoError, encoder_asked |-> FALSE,
          track_appended |-> None, encoder_given |-> "none"]
    ELSE LET r == produce_and_push(buf[c], TRUE, enc[c])
             after == [buf EXCEPT ![c] = r.buffer]
         IN IF r.raised # NoError \/ c = num_of_channels - 1
            THEN [r EXCEPT !.buffer = after]
            ELSE run_produce_live(after, enc, c + 1)

\* tick % enable_tick == 0, for an enable_tick that is not 0
enabled_on(enable_tick, t) ==
    t % (IF enable_tick < 0 THEN 0 - enable_tick ELSE enable_tick) = 0

\* write_up_popped_words writing channel 0 on every line
write_up_popped_words_channel_zero(name, file, read_step, word, channel) ==
    IF name # "CARR" THEN [file |-> file, raised |-> ErrAttribute]
    ELSE IF word # None
    THEN [file |-> Append(file, [time_step |-> read_step - 1, channel_id |-> 0,
                                 fifo_hex |-> hex(word), fifo_dec |-> word]),
          raised |-> NoError]
    ELSE [file |-> file, raised |-> NoError]

\* write_up_popped_words(pop_file, read_step) on an arbiter of class `name`
\* whose last_popped_word is `word` and channel_select[-1] is `channel`;
\* only CARRArbiter has the attribute last_popped_word
write_up_popped_words(name, file, read_step, word, channel) ==
    IF name # "CARR" THEN [file |-> file, raised |-> ErrAttribute]
    ELSE IF word # None
    THEN [file |-> Append(file, [time_step |-> read_step - 1, channel_id |-> channel,
                                 fifo_hex |-> hex(word), fifo_dec |-> word]),
          raised |-> NoError]
    ELSE [file |-> file, raised |-> NoError]

\* lines 564-577: the call, the shape check and total_ticks
StartRun(rows, shape_ok) ==
    /\ run_pc = "not_running" /\ pc = "idle"
    /\ img_rows' = rows
    /\ IF ~shape_ok
       THEN raised' = ErrImgShape /\ run_pc' = "failed"
       ELSE /\ raised' = NoError
            /\ run_pc' = IF rows * wr_enable_tick > 0 THEN "write" ELSE "done"
    /\ UNCHANGED <<configVars, buffer, channelVars, arbiterVars, packerVars,
                   write_up, tick, wr_step, rd_step, POP_word_file,
                   step_popped>>

\* lines 580-583: the write part of a tick
WriteTick(enc) ==
    /\ run_pc = "write"
    /\ IF enabled_on(wr_enable_tick, tick) /\ wr_step < img_rows
       THEN LET r == run_produce_live(buffer, enc, 0)
            IN /\ buffer' = r.buffer
               /\ raised' = r.raised
               /\ encoder_asked' = r.encoder_asked
               /\ track_appended' = r.track_appended
               /\ encoder_given' = r.encoder_given
               /\ wr_step' = IF r.raised = NoError THEN wr_step + 1 ELSE wr_step
               /\ run_pc' = IF r.raised = NoError THEN "read" ELSE "failed"
       ELSE /\ run_pc' = "read"
            /\ UNCHANGED <<buffer, raised, channelVars, wr_step>>
    /\ UNCHANGED <<configVars, arbiterVars, packerVars, write_up,
                   img_rows, tick, rd_step, POP_word_file, step_popped>>

\* line 585 with rd_enable_tick = 0
ReadByZero ==
    /\ run_pc = "read" /\ pc = "idle" /\ rd_enable_tick = 0
    /\ raised' = ErrZeroDivision
    /\ run_pc' = "failed"
    /\ UNCHANGED <<configVars, buffer, channelVars, arbiterVars, packerVars,
                   write_up, img_rows, tick, wr_step, rd_step,
                   POP_word_file, step_popped>>

\* line 585 on a tick that is no read tick
ReadSkip ==
    /\ run_pc = "read" /\ pc = "idle" /\ rd_enable_tick # 0
    /\ ~enabled_on(rd_enable_tick, tick)
    /\ run_pc' = "track"
    /\ UNCHANGED <<configVars, fifoVars, channelVars, arbiterVars, packerVars,
                   write_up, img_rows, tick, wr_step, rd_step,
                   POP_word_file, step_popped>>

\* the channel and word a step took from the queues
dequeued(before, after) ==
    IF \E c \in Chan : Len(after[c]) < Len(before[c])
    THEN LET c == CHOOSE d \in Chan : Len(after[d]) < Len(before[d])
         IN [channel_id |-> c, word |-> Head(before[c])]
    ELSE NoDequeue

\* lines 587-588 once the step has returned
AfterStep ==
    /\ rd_step' = rd_step + 1
    /\ step_popped' = dequeued(buffer, buffer')
    /\ run_pc' = IF write_up THEN "write_up" ELSE "track"
    /\ UNCHANGED <<packerVars, write_up, img_rows, tick, wr_step,
                   POP_word_file>>

\* line 587 on a read tick: run_consume_live up to select_channel's return
ReadSelect ==
    /\ run_pc = "read" /\ rd_enable_tick # 0
    /\ enabled_on(rd_enable_tick, tick)
    /\ Select
    /\ UNCHANGED <<packerVars, runVars>>

\* lines 587-588: the rest of the arbiter step
ReadPop ==
    /\ run_pc = "read"
    /\ PopSelected
    /\ AfterStep

\* lines 587-588 with a CARR step that returns before selecting
ReadIdle ==
    /\ run_pc = "read" /\ rd_enable_tick # 0
    /\ enabled_on(rd_enable_tick, tick)
    /\ CARRIdle
    /\ AfterStep

\* lines 589-590
WriteUp ==
    /\ run_pc = "write_up"
    /\ LET r == write_up_popped_words(arbiter_name, POP_word_file, rd_step,
                                      last_popped_word, channel_select_last)
       IN /\ POP_word_file' = r.file
          /\ raised' = r.raised
          /\ run_pc' = IF r.raised = NoError THEN "track" ELSE "failed"
    /\ UNCHANGED <<configVars, buffer, channelVars, arbiterVars, packerVars,
                   write_up, img_rows, tick, wr_step, rd_step,
                   step_popped>>

\* line 593 and the loop's next tick
TrackTick ==
    /\ run_pc = "track"
    /\ tick' = tick + 1
    /\ run_pc' = IF tick + 1 < img_rows * wr_enable_tick THEN "write" ELSE "done"
    /\ UNCHANGED <<configVars, fifoVars, channelVars, arbiterVars, packerVars,
                   write_up, img_rows, wr_step, rd_step,
                   POP_word_file, step_popped>>

InitRun ==
    /\ ConstructedLine(NumChannels, DataDepth, ArbiterNames, MaxReadsCfg)
    \* the frequency pairs of the data lines run, in tenths of a MHz
    /\ \E f \in {<<DefaultWrFreq, DefaultRdFreq>>, <<1, 2>>, <<2, 1>>, <<1, 7>>} :
          LET t == tick_enables(f[1], f[2])
          IN /\ wr_freq = f[1]
             /\ rd_freq = f[2]
             /\ LCM_freq = t.LCM_freq
             /\ wr_enable_tick = t.wr_enable_tick
             /\ rd_enable_tick = t.rd_enable_tick
    /\ NoPacketiser
    /\ write_up \in BOOLEAN
    /\ img_rows = 0
    /\ run_pc = "not_running"
    /\ tick = 0
    /\ wr_step = 0
    /\ rd_step = 0
    /\ POP_word_file = <<>>
    /\ step_popped = NoDequeue

\* an action of the run, the histories of the other specifications left
\* alone
Unrecorded(A) == A /\ UNCHANGED observerVars

NextRun ==
    \/ \E rows \in 0 .. MaxRows, shape_ok \in BOOLEAN : Unrecorded(StartRun(rows, shape_ok))
    \/ \E enc \in [Chan -> EncodeLive(EncWords)] : Unrecorded(WriteTick(enc))
    \/ Unrecorded(ReadByZero)
    \/ Unrecorded(ReadSkip)
    \/ Unrecorded(ReadSelect)
    \/ Unrecorded(ReadPop)
    \/ Unrecorded(ReadIdle)
    \/ Unrecorded(WriteUp)
    \/ Unrecorded(TrackTick)

SpecRun == InitRun /\ [][NextRun]_vars

\* C15: with write_up enabled, under each of the four policies, a read tick
\* whose arbiter step dequeued a word appends exactly one line with the
\* tick's read index, the channel the word came from and the word, and a
\* read tick without a dequeue appends no line
C15_WriteUpTrace ==
    [][LET \* the line of a dequeue of read step number read_step
           trace_line(read_step, d) ==
               [time_step |-> read_step - 1, channel_id |-> d.channel_id,
                fifo_hex |-> hex(d.word), fifo_dec |-> d.word]
       IN run_pc = "write_up" =>
              POP_word_file' = IF step_popped = NoDequeue THEN POP_word_file
                               ELSE Append(POP_word_file,
                                           trace_line(rd_step, step_popped))]_vars

(***************************************************************************)
(* One channel built with either value of one_B_mode, fed by               *)
(* produce_and_push and drained by the base arbiter.                       *)
(***************************************************************************)
\* the words the encoder returns to this channel
ChannelWords == {0, MaxWord}

NextChannel ==
    \/ \E shape_ok \in BOOLEAN, encoded_data \in EncodeLive(ChannelWords) :
           Unobserved(Produce(0, shape_ok, encoded_data))
    \/ Unobserved(RoundRobinSelect)
    \/ Unobserved(RoundRobinPop)

InitChannel ==
    /\ ConstructedChannels(1, ChannelDepth, {"round_robin"}, None)
    /\ one_b_mode \in BOOLEAN
    /\ DefaultClock
    /\ NoPacketiser
    /\ NotRunning

SpecChannel == InitChannel /\ [][NextChannel]_vars

\* C18: a produce_and_push that returns normally has enqueued exactly the
\* words the encoder returned (none, one or two), at the tail of the queue
\* and in the order returned: the occupancy grows by 0, 1 or 2 and the words
\* already queued keep their places.
C18_EnqueuesEncoderWords ==
    [][\A shape_ok \in BOOLEAN, encoded_data \in EncodeLive(ChannelWords) :
          (Produce(0, shape_ok, encoded_data) /\ raised' = NoError) =>
              /\ buffer'[0] = buffer[0] \o encoded_data
              /\ Len(buffer'[0]) - Len(buffer[0]) \in {0, 1, 2}
              /\ SubSeq(buffer'[0], 1, Len(buffer[0])) = buffer[0]]_vars

\* two different words were enqueued behind a queued one
C18_Witness ==
    /\ encoder_asked /\ raised = NoError
    /\ buffer[0] = <<MaxWord, 0, MaxWord>>
    /\ track_appended = ChannelDepth - 3

\* C19: a produce_and_push that reaches the encoder gives it the
\* binary-coerced row exactly when the channel's one_b_mode is set and the
\* queue holds at least data_depth - 4 words at the call; otherwise the
\* encoder is given the row as it is.
C19_DegradedEncoding ==
    [][encoder_asked' =>
          /\ encoder_given' \in {"binary", "row"}
          /\ encoder_given' = "binary" <=>
                 (one_b_mode /\ Len(buffer[0]) >= data_depth - 4)]_vars

\* the flag is set and the call found exactly data_depth - 4 words queued
C19_Witness ==
    /\ one_b_mode /\ encoder_asked /\ encoder_given = "binary"
    /\ Len(buffer[0]) = data_depth - 4
    /\ track_appended = 4

NextUrgency ==
    \/ \E encoded_data \in EncodeLive(EncWords) :
           Unobserved(Produce(0, TRUE, encoded_data))
    \/ /\ NotStepped /\ is_empty(buffer[1])
       /\ \E encoded_data \in EncodeLive(EncWords) :
              Unobserved(Produce(1, TRUE, encoded_data))
    \/ Unobserved(UrgencySelect)
    \/ Unobserved(UrgencyPop)

SpecUrgency ==
    /\ Constructed(2, UrgencyDepth, {"urgency"}, None)
    /\ [][NextUrgency]_vars

\* C23: after every select_channel of the urgency arbiter, a channel that
\* was empty at the call has urgency 0 and age 0, and a non-empty one has
\* age = min(previous age + 1, 255) and urgency = space_used * 4 + age.
C23_UrgencyScoring ==
    [][(pc = "idle" /\ pc' = "selected") =>
          \A c \in Chan :
              IF Len(buffer[c]) = 0
              THEN age'[c] = 0 /\ urgency'[c] = 0
              ELSE /\ age'[c] = IF age[c] + 1 < 255 THEN age[c] + 1 ELSE 255
                   /\ urgency'[c] = Len(buffer[c]) * 4 + age'[c]]_vars

\* select_channel has returned channel 0, full and just served, while the
\* waiting channel 1 is at the cap and scored 4 * 1 + 255
C23_Witness ==
    /\ pc = "selected" /\ sel_channel = 0
    /\ age[1] = 255 /\ urgency[1] = 259 /\ Len(buffer[1]) = 1
    /\ Len(buffer[0]) = UrgencyDepth /\ age[0] = 1
    /\ urgency[0] = 4 * UrgencyDepth + 1

\* C24: select_channel of the urgency arbiter returns the channel of maximum
\* urgency, the lowest id among those of equal maximum urgency; when some
\* channel is non-empty the channel returned is non-empty.
C24_UrgencySelection ==
    [][(pc = "idle" /\ pc' = "selected") =>
          /\ \A c \in Chan : urgency'[c] <= urgency'[sel_channel']
          /\ \A c \in Chan : c < sel_channel' => urgency'[c] < urgency'[sel_channel']
          /\ last_served' = sel_channel'
          /\ (\E c \in Chan : Len(buffer[c]) > 0) => Len(buffer[sel_channel']) > 0]_vars

\* two non-empty channels of equal urgency, channel 0 returned
C24_Witness ==
    /\ pc = "selected" /\ sel_channel = 0
    /\ urgency[0] = urgency[1] /\ urgency[0] > 0
    /\ Len(buffer[0]) # Len(buffer[1])

\* C25: every channel's age stays within 0..255, and right after every step
\* of the urgency arbiter the age of the channel that step selected is 0.
C25_AgeInvariant ==
    [][/\ \A c \in Chan : age[c] \in 0 .. 255 /\ age'[c] \in 0 .. 255
       /\ (pc = "selected" /\ pc' = "idle") => age'[sel_channel] = 0]_vars

\* a step has just served channel 0 while channel 1 waits at the cap
C25_Witness ==
    /\ pc = "idle" /\ channel_select_last = 0 /\ ~encoder_asked /\ raised = NoError
    /\ age[0] = 0 /\ age[1] = 255
    /\ Len(buffer[0]) = UrgencyDepth - 1

(***************************************************************************)
(* The data line of RrChannels channels under RoundRobinSkipEmpty.         *)
(***************************************************************************)
NextSkip ==
    \/ \E c \in Chan, shape_ok \in BOOLEAN, encoded_data \in EncodeLive(EncWords) :
           Unobserved(Produce(c, shape_ok, encoded_data))
    \/ Unobserved(SkipSelect)
    \/ Unobserved(SkipPop)

SpecSkip ==
    /\ Constructed(RrChannels, DataDepth, {"round_robin_skip"}, None)
    /\ [][NextSkip]_vars

\* C21: on every step of RoundRobinSkipEmpty at which some channel is
\* non-empty, exactly one word is dequeued, from the first non-empty channel
\* met scanning cyclically from last_served + 1, and last_served becomes
\* that channel's index.
C21_WorkConserving ==
    [][/\ (pc = "idle" /\ pc' = "selected" /\ \E c \in Chan : Len(buffer[c]) > 0) =>
              \E k \in 1 .. num_of_channels :
                  /\ Len(buffer[(last_served + k) % num_of_channels]) > 0
                  /\ \A j \in 1 .. (k - 1) :
                         Len(buffer[(last_served + j) % num_of_channels]) = 0
                  /\ sel_channel' = (last_served + k) % num_of_channels
                  /\ last_served' = sel_channel'
       /\ (pc = "selected" /\ pc' = "idle" /\ sel_channel # None) =>
              /\ buffer' = [buffer EXCEPT ![sel_channel] = Tail(@)]
              /\ Len(buffer[sel_channel]) > 0
              /\ channel_select_last' = sel_channel
              /\ last_served' = sel_channel
              /\ raised' = NoError]_vars

\* channel 0 was served last and still holds words, channel 1 is empty, and
\* select_channel has returned channel 2
C21_Witness ==
    /\ pc = "selected" /\ sel_channel = 2 /\ last_served = 2
    /\ channel_select_last = 0
    /\ buffer[0] # <<>> /\ buffer[1] = <<>> /\ buffer[2] # <<>>

\* C22: when every channel is empty, a step of RoundRobinSkipEmpty dequeues
\* nothing and records no selection, and last_served, left at the last
\* probed position, designates the same channel modulo num_of_channels as
\* before the step.
C22_IdleTick ==
    [][/\ (pc = "idle" /\ pc' = "selected" /\ \A c \in Chan : Len(buffer[c]) = 0) =>
              /\ sel_channel' = None
              /\ last_served' = (last_served + num_of_channels) % num_of_channels
              /\ UNCHANGED <<buffer, channel_select_last>>
       /\ (pc = "selected" /\ pc' = "idle" /\ sel_channel = None) =>
              /\ \A c \in Chan : Len(buffer[c]) = 0
              /\ UNCHANGED <<buffer, channel_select_last, last_served>>]_vars

\* an idle tick has just ended after channel 1 had been served: the pointer
\* is back on channel 1
C22_Witness ==
    /\ pc = "idle" /\ ~encoder_asked /\ raised = NoError
    /\ \A c \in Chan : buffer[c] = <<>>
    /\ last_served = 1 /\ channel_select_last = 1

(***************************************************************************)
(* CARR data lines of NumChannels channels built with every max_reads      *)
(* from 0 to MaxReadsCfg.                                                  *)
(***************************************************************************)
SpecCaps ==
    /\ \E reads \in 0 .. MaxReadsCfg : Constructed(NumChannels, CarrDepth, {"CARR"}, reads)
    /\ [][NextCARR]_vars

\* C26: a CARR step taken while all channels are empty dequeues nothing and
\* leaves curr_idx, burst_count and the selection log as they were.
C26_IdleHold ==
    [][(pc = "idle" /\ (\A c \in Chan : Len(buffer[c]) = 0) /\ ~encoder_asked') =>
          /\ pc' = "idle"
          /\ UNCHANGED <<buffer, curr_idx, burst_count, channel_select_last>>]_vars

\* an idle step has followed the dequeue of channel 1's last word: the word
\* is cleared, curr_idx and burst_count are those of the dequeue
C26_Witness ==
    /\ pc = "idle" /\ ~encoder_asked
    /\ \A c \in Chan : buffer[c] = <<>>
    /\ last_popped_word = None
    /\ channel_select_last = 1 /\ curr_idx = 1 /\ burst_count = 1

\* C27: when no other channel is almost full and the current channel is
\* empty while some channel is non-empty, select_channel moves curr_idx to
\* the next non-empty channel in cyclic order after the current one and sets
\* burst_count to 0, and the step dequeues from that channel.
C27_EmptyCurrent ==
    [][/\ (pc = "idle" /\ pc' = "selected" /\ Congested = {}
              /\ Len(buffer[curr_idx]) = 0) =>
              /\ Len(buffer[curr_idx']) > 0
              /\ \A j \in Chan : Len(buffer[j]) > 0 => Ahead(curr_idx') <= Ahead(j)
              /\ burst_count' = 0
              /\ sel_channel' = curr_idx'
       /\ (pc = "selected" /\ pc' = "idle") =>
              /\ sel_channel = curr_idx
              /\ buffer' = [buffer EXCEPT ![curr_idx] = Tail(@)]
              /\ channel_select_last' = curr_idx]_vars

\* channel 0 was served last and is empty, channel 1 is empty too, and
\* select_channel has moved to channel 2, which is not almost full
C27_Witness ==
    /\ pc = "selected" /\ channel_select_last = 0
    /\ curr_idx = 2 /\ sel_channel = 2 /\ burst_count = 0
    /\ buffer[0] = <<>> /\ buffer[1] = <<>>
    /\ Len(buffer[2]) > 0 /\ Len(buffer[2]) < data_depth - 4

\* C28: when burst_count has reached max_reads and a channel other than the
\* current one is non-empty, the next dequeue is from a channel other than
\* the current one; when burst_count < max_reads, the current channel is
\* non-empty and no other channel is almost full, the dequeue is from the
\* current channel and burst_count grows by one.
C28_FairnessCap ==
    [][/\ (pc = "idle" /\ pc' = "selected" /\ burst_count >= max_reads
              /\ \E c \in Chan : c # curr_idx /\ Len(buffer[c]) > 0) =>
              /\ sel_channel' # curr_idx
              /\ Len(buffer[sel_channel']) > 0
       /\ (pc = "idle" /\ pc' = "selected" /\ burst_count < max_reads
              /\ Len(buffer[curr_idx]) > 0 /\ Congested = {}) =>
              /\ sel_channel' = curr_idx
              /\ UNCHANGED <<curr_idx, burst_count>>
       /\ (pc = "selected" /\ pc' = "idle") =>
              /\ buffer' = [buffer EXCEPT ![sel_channel] = Tail(@)]
              /\ channel_select_last' = sel_channel
              /\ burst_count' = burst_count + 1]_vars

\* max_reads = 2 words were read from channel 0 in a row; it still holds
\* words and channel 1, not almost full, has been selected
C28_Witness ==
    /\ pc = "selected" /\ max_reads = 2
    /\ channel_select_last = 0 /\ Len(buffer[0]) > 0
    /\ sel_channel = 1 /\ curr_idx = 1 /\ burst_count = 0
    /\ Len(buffer[1]) = 1

\* C29: 0 <= burst_count <= max_reads in every reachable state of a CARR
\* arbiter, for every max_reads, 0 and 1 included.
C29_BurstBound ==
    arbiter_name = "CARR" => (burst_count >= 0 /\ burst_count <= max_reads)

\* C30: after a CARR step that dequeued a word, last_popped_word is that
\* word and the last entry of the selection log is the channel it came
\* from; after a CARR step that dequeued nothing, last_popped_word is None.
C30_LastPoppedWord ==
    [][/\ (pc = "selected" /\ pc' = "idle") =>
              IF buffer' # buffer
              THEN \E c \in Chan :
                       /\ Len(buffer[c]) > 0
                       /\ buffer' = [buffer EXCEPT ![c] = Tail(@)]
                       /\ last_popped_word' = Head(buffer[c])
                       /\ channel_select_last' = c
              ELSE last_popped_word' = None
       /\ (pc = "idle" /\ pc' = "idle" /\ ~encoder_asked' /\ raised' = NoError) =>
              /\ buffer' = buffer
              /\ last_popped_word' = None]_vars

\* the step that just returned dequeued a word from channel 1
C30_Witness ==
    /\ pc = "idle" /\ ~encoder_asked /\ raised = NoError
    /\ last_popped_word = MaxWord
    /\ channel_select_last = 1 /\ curr_idx = 1 /\ burst_count = 1
    /\ Len(buffer[1]) > 0

(***************************************************************************)
(* Claims about the selection log and about failed productions, checked    *)
(* under Spec.                                                             *)
(***************************************************************************)
\* C36: under every policy a channel id is appended to channel_select on
\* exactly the steps that dequeue a word: a step that shortens a queue
\* leaves that queue's channel as the log's last entry, and a step that
\* shortens no queue leaves the log, hence its last entry, as it was.
C36_SelectionLog ==
    [][IF \E c \in Chan : Len(buffer'[c]) < Len(buffer[c])
       THEN /\ channel_select_last' \in Chan
            /\ Len(buffer'[channel_select_last']) < Len(buffer[channel_select_last'])
       ELSE channel_select_last' = channel_select_last]_vars

\* C38: a produce_and_push that raises because the queue is full, on entry
\* or while the encoder's words are pushed, leaves every queue holding
\* exactly the words it held before the call.
C38_FailedProductionAtomic ==
    [][raised' \in {ErrChanFull, ErrFull} => buffer' = buffer]_vars

(***************************************************************************)
(* The skip-empty round robin with the wait of every channel counted:      *)
(* RrChannels channels, productions on any channel between any two steps.  *)
(***************************************************************************)
\* the rest of an arbiter step, with the wait of every channel counted: a
\* channel the step found empty or took a word from starts anew
Waiting(A) ==
    /\ A
    /\ waited' = [c \in Chan |->
                     IF is_empty(buffer[c]) \/ Len(buffer'[c]) < Len(buffer[c]) THEN 0
                     ELSE IF waited[c] < num_of_channels THEN waited[c] + 1
                     ELSE waited[c]]
    /\ UNCHANGED <<pushed, popped, select_trace, enqueued, drained, packerVars, runVars>>

NextWait ==
    \/ \E c \in Chan, encoded_data \in EncodeLive(EncWords) :
           Unobserved(Produce(c, TRUE, encoded_data))
    \/ Unobserved(SkipSelect)
    \/ Waiting(SkipPop)

SpecWait ==
    /\ Constructed(RrChannels, DataDepth, {"round_robin_skip"}, None)
    /\ [][NextWait]_vars

\* C37: under RoundRobinSkipEmpty a channel that is non-empty has a word
\* dequeued within the next N arbiter steps, N the number of channels: no
\* channel is found non-empty and passed over N steps in a row, whatever
\* the other channels produce in between.
C37_BoundedWait ==
    \A c \in Chan : waited[c] <= num_of_channels - 1

\* channel 2 has been passed over on N - 1 steps in a row, the last of
\* which served channel 1
C37_Witness ==
    /\ pc = "idle" /\ num_of_channels = RrChannels
    /\ waited[RrChannels - 1] = RrChannels - 1
    /\ channel_select_last = RrChannels - 2

(***************************************************************************)
(* Claims about the scheduler, checked under SpecRun.                      *)
(***************************************************************************)
\* C31: run_single_image over R rows ends after exactly R * wr_enable_tick
\* ticks unless a queue ran out of room, having produced every row once, in
\* order; at the end of every tick the productions made are the multiples
\* of wr_enable_tick met so far and the arbiter steps made are the multiples
\* of rd_enable_tick met so far (hence rd_enable_tick productions and
\* wr_enable_tick steps in wr_enable_tick * rd_enable_tick ticks).
C31_SchedulerRun ==
    /\ run_pc = "failed" => raised \in {ErrImgShape, ErrChanFull, ErrFull}
    /\ run_pc = "done" => (tick = img_rows * wr_enable_tick /\ wr_step = img_rows)
    /\ run_pc = "track" =>
           /\ tick < img_rows * wr_enable_tick
           /\ wr_step = (tick \div wr_enable_tick) + 1
           /\ rd_step = (tick \div rd_enable_tick) + 1

\* C32: on a tick that is a write tick and a read tick, the productions of
\* all channels, in ascending channel id, come before the arbiter step: the
\* step starts with the tick's row produced, and a production that fails
\* at channel c has admitted the channels below c and left the channels
\* above c untouched.
C32_SameTickOrdering ==
    [][/\ (/\ run_pc = "read" /\ pc = "idle" /\ rd_enable_tick # 0
           /\ enabled_on(rd_enable_tick, tick) /\ enabled_on(wr_enable_tick, tick)) =>
              wr_step = (tick \div wr_enable_tick) + 1
       /\ (run_pc = "write" /\ run_pc' = "failed") =>
              \E c \in Chan :
                  /\ is_full(buffer'[c])
                  /\ \A d \in Chan : d < c => ~is_full(buffer[d])
                  /\ \A d \in Chan : d > c => buffer'[d] = buffer[d]]_vars

\* the word enqueued on tick 0 into an empty channel 1 was dequeued by the
\* arbiter step of tick 0
C32_Witness ==
    /\ run_pc = "track" /\ tick = 0 /\ wr_step = 1 /\ rd_step = 1
    /\ step_popped.channel_id = 1 /\ step_popped.word = MaxWord

(***************************************************************************)
(* Claims about the frames of the packetisers, checked under SpecPacker.   *)
(***************************************************************************)
\* C33: in the output of either packetiser an EOF followed at once by a new
\* SOF and HEADER stands exactly before the lines whose channel id is lower
\* than that of the line before, the segment header of such a line comes
\* right after the new HEADER, and one EOF closes the output: the output is
\* SOF, HEADER, then line by line (EOF, SOF, HEADER if the channel id
\* decreased) (a segment header if the channel id changed) (the words
\* written for the line), then EOF.
C33_FrameBoundaries ==
    header_cnt # None =>
        LET fixed == packer_name = "CARR_packer_fixed_length"
            marker(kind) == <<kind, None>>
            segment_header(id) ==
                IF fixed THEN <<<<"SEG", id>>>> ELSE <<marker("CHS"), <<"SEG", id>>>>
            payload(line) ==
                [k \in 1 .. (IF fixed THEN 1 ELSE Len(word_processing(line.fifo_hex))) |->
                    marker("WORD")]
            RECURSIVE framed(_)
            framed(i) ==
                IF i = 0 THEN <<marker("SOF"), marker("HEADER")>>
                ELSE framed(i - 1)
                     \o (IF i > 1 /\ ids[i] < ids[i - 1]
                         THEN <<marker("EOF"), marker("SOF"), marker("HEADER")>>
                         ELSE <<>>)
                     \o (IF i \in run_starts THEN segment_header(ids[i]) ELSE <<>>)
                     \o payload(fifo_output_lines[i])
            shape == [i \in 1 .. Len(packetised) |->
                         IF packetised[i].kind \in {"CTRL", "CID"}
                         THEN <<"SEG", packetised[i].channel_id>>
                         ELSE marker(packetised[i].kind)]
        IN shape = framed(Len(fifo_output_lines)) \o <<marker("EOF")>>

\* a file of MaxTrace lines on channels 1, 0, 1, built by the fixed-length
\* packetiser: one frame is sealed before the second line
C33_Witness ==
    /\ packer_name = "CARR_packer_fixed_length"
    /\ header_cnt = 2 /\ ender_cnt = 2
    /\ ids = <<1, 0, 1>>

\* C34: after one build_packet on a new packetiser _encoded_packet_size is
\* the number of words written: 3 per frame, one per segment and one per
\* payload word for the fixed-length packetiser; 3 per frame, two per
\* segment, one per payload word and one more per stuffed word for the
\* variable-length one.
C34_EncodedSize ==
    header_cnt # None =>
        LET frames == decreases + 1
            segments == Cardinality(run_starts)
            words == Len(fifo_output_lines)
            stuffed == Cardinality({i \in 1 .. Len(packetised) :
                                       packetised[i] = word_line(<<"0", "x", "B", "E", "E", "F">>)})
        IN /\ encoded_packet_size = Len(packetised)
           /\ encoded_packet_size =
                  IF packer_name = "CARR_packer_fixed_length"
                  THEN 3 * frames + segments + words
                  ELSE 3 * frames + 2 * segments + words + stuffed

\* the variable-length packetiser has built two frames, a stuffed word
\* among their words
C34_Witness ==
    /\ packer_name = "CARR_PACKER_VARIABLE_LENGTH"
    /\ header_cnt = 2
    /\ Len(fifo_output_lines) = MaxTrace
    /\ \E i \in 1 .. Len(packetised) :
           packetised[i] = word_line(<<"0", "x", "B", "E", "E", "F">>)
    /\ encoded_packet_size = 3 * 2 + 2 * Cardinality(run_starts) + MaxTrace + 1

(***************************************************************************)
(* The packetisers run on the file of one long burst: up to MaxRun words   *)
(* in a row from one channel.                                              *)
(***************************************************************************)
\* the most words the documentation of CARR_packer_fixed_length gives a
\* channel segment
SegmentCap == 32
MaxRun == 33

InitSegment ==
    /\ ConstructedLine(NumChannels, DataDepth, {"CARR"}, MaxReadsCfg)
    /\ DefaultClock
    /\ NotRunning
    /\ packer_name \in {"CARR_packer_fixed_length", "CARR_PACKER_VARIABLE_LENGTH"}
    /\ fifo_output_lines \in
           {file_lines([i \in 1 .. n |-> <<c, 17>>], style) :
                n \in 0 .. MaxRun, c \in 0 .. (PackChannels - 1), style \in {"hex", "upper"}}
    /\ packetised = <<>>
    /\ header_cnt = None
    /\ ender_cnt = None
    /\ encoded_packet_size = 0

SpecSegment == InitSegment /\ [][BuildPacket]_vars

\* C35: whatever the drain trace, no channel segment of the fixed-length
\* packetiser's output holds more than 32 words: no SegmentCap + 1 lines in
\* a row of the output are payload words.
C35_SegmentCap ==
    (packer_name = "CARR_packer_fixed_length" /\ header_cnt # None) =>
        \A i \in 1 .. (Len(packetised) - SegmentCap) :
            \E k \in 0 .. SegmentCap : packetised[i + k].kind # "WORD"

\* C40: in the variable-length output built from a file as
\* write_up_popped_words writes it (every word spelled by hex()), whatever
\* the words, no payload word has the value 0xDEAD or 0xC0DE, and the word
\* after an ESCAPE (a payload word of value 0xBEEF) is none of 0xC0DE,
\* 0xDEAD, 0xBEEF.
C40_UnambiguousDelimiters ==
    (/\ packer_name = "CARR_PACKER_VARIABLE_LENGTH" /\ header_cnt # None
     /\ \A i \in 1 .. Len(fifo_output_lines) :
            fifo_output_lines[i].fifo_hex = hex(fifo_output_lines[i].fifo_dec)) =>
        LET payload == values(SelectSeq(packetised, is_word_line))
        IN \A i \in 1 .. Len(payload) :
               /\ payload[i] \notin {57005, 49374}
               /\ (i > 1 /\ payload[i - 1] = 48879) =>
                      payload[i] \notin {49374, 57005, 48879}

(***************************************************************************)
(* run_single_image with the words every fifo took and gave recorded, the  *)
(* encoders returning two different words.                                 *)
(***************************************************************************)
\* an action of the run, with the words it pushed into and popped from the
\* fifo of every channel recorded
Recorded(A) ==
    /\ A
    /\ enqueued' = [c \in Chan |->
                       enqueued[c] \o SubSeq(buffer'[c], Len(buffer[c]) + 1, Len(buffer'[c]))]
    /\ drained' = [c \in Chan |->
                      IF Len(buffer'[c]) < Len(buffer[c])
                      THEN Append(drained[c], Head(buffer[c])) ELSE drained[c]]
    /\ UNCHANGED <<pushed, popped, select_trace, waited>>

NextOrder ==
    \/ \E rows \in 0 .. MaxRows, shape_ok \in BOOLEAN : Recorded(StartRun(rows, shape_ok))
    \* the encoder of a channel returns None, the word 0, or the tuple
    \* (0xFFFF, 0)
    \/ \E enc \in [Chan -> {<<>>, <<0>>, <<MaxWord, 0>>}] : Recorded(WriteTick(enc))
    \/ Recorded(ReadSkip)
    \/ Recorded(ReadSelect)
    \/ Recorded(ReadPop)
    \/ Recorded(ReadIdle)
    \/ Recorded(WriteUp)
    \/ Recorded(TrackTick)

\* data lines of every policy before the run, reading twice as fast as
\* writing or writing twice as fast as reading
InitOrder ==
    /\ ConstructedLine(NumChannels, DataDepth, ArbiterNames, MaxReadsCfg)
    /\ \E f \in {<<1, 2>>, <<2, 1>>} :
          LET t == tick_enables(f[1], f[2])
          IN /\ wr_freq = f[1]
             /\ rd_freq = f[2]
             /\ LCM_freq = t.LCM_freq
             /\ wr_enable_tick = t.wr_enable_tick
             /\ rd_enable_tick = t.rd_enable_tick
    /\ NoPacketiser
    /\ write_up \in BOOLEAN
    /\ img_rows = 0
    /\ run_pc = "not_running"
    /\ tick = 0
    /\ wr_step = 0
    /\ rd_step = 0
    /\ POP_word_file = <<>>
    /\ step_popped = NoDequeue

SpecOrder == InitOrder /\ [][NextOrder]_vars

\* C39: in any run, under every policy, the words the popped-words file
\* records for channel c, in file order, are a prefix of the words channel
\* c enqueued, and the words channel c enqueued are as many as the words
\* dequeued from it and the words still in its queue together.
C39_PerChannelOrder ==
    \A c \in Chan :
        LET of_channel(line) == line.channel_id = c
            recorded == SelectSeq(POP_word_file, of_channel)
        IN /\ Len(recorded) <= Len(enqueued[c])
           /\ \A i \in 1 .. Len(recorded) : recorded[i].fifo_dec = enqueued[c][i]
           /\ Len(enqueued[c]) = Len(drained[c]) + Len(buffer[c])

\* the file records two different words of channel 0, in the order channel
\* 0 enqueued them, while a queue still holds a word
C39_Witness ==
    /\ \E i \in 1 .. Len(POP_word_file), j \in 1 .. Len(POP_word_file) :
           /\ i < j
           /\ POP_word_file[i].channel_id = 0 /\ POP_word_file[j].channel_id = 0
           /\ POP_word_file[i].fifo_dec = MaxWord /\ POP_word_file[j].fifo_dec = 0
    /\ \E c \in Chan : Len(buffer[c]) > 0
    /\ enqueued[0] = <<MaxWord, 0>>
    /\ run_pc = "track"

====
